---- MODULE Spec2Model ----
(***************************************************************************)
(* A model of the turn-based tactics engine of sinplegame.py: the grid,    *)
(* the units, fog of war, combat with retaliation, abilities, status       *)
(* effects, the human command loop of Game.run and the AI of               *)
(* Game.perform_ai_turn.                                                   *)
(*                                                                         *)
(* The grid is scaled down (MAP_WIDTH x MAP_HEIGHT are bounds of the       *)
(* model; the program uses 12 x 10) and so is the terrain layout, which is *)
(* the constructor's input.  Every unit table and rule is the program's.   *)
(***************************************************************************)
EXTENDS Integers, Sequences, FiniteSets, TLC

(* ------------------------------ bounds -------------------------------- *)
MAP_WIDTH == 6
MAP_HEIGHT == 4
MaxTurn == 1
MaxCommands == 3
ProbeSide == 7
MaxOthers == 2
MaxUpkeeps == 5
PathSide == 3
MaxRough == 3

(* ----------------------------- constants ------------------------------ *)
INITIAL_GOLD == 100
GOLD_PER_TURN == 25
BASE_STARTING_HP == 100
POISON_DAMAGE == 2
MAX_LEVEL == 4

NoUnit == 0

Max(a, b) == IF a >= b THEN a ELSE b
Min(a, b) == IF a <= b THEN a ELSE b
Abs(a) == IF a >= 0 THEN a ELSE -a

Cells == (0 .. MAP_WIDTH - 1) \X (0 .. MAP_HEIGHT - 1)

TERRAIN_TYPES ==
  [ P |-> [move_cost |-> 1, defense_bonus |-> 0, vision_cost |-> 1, income |-> 0],
    M |-> [move_cost |-> 2, defense_bonus |-> 2, vision_cost |-> 2, income |-> 0],
    F |-> [move_cost |-> 2, defense_bonus |-> 1, vision_cost |-> 2, income |-> 0],
    G |-> [move_cost |-> 1, defense_bonus |-> 0, vision_cost |-> 1, income |-> 10],
    B |-> [move_cost |-> 1, defense_bonus |-> 1, vision_cost |-> 1, income |-> 0] ]

UNIT_STATS ==
  [ Warrior |-> [hp |-> 25, attack |-> 6, defense |-> 3, attack_range |-> 1,
                 move_range |-> 3, vision_range |-> 2, cost |-> 50, xp_value |-> 10,
                 ability |-> "Bash", ability_cooldown |-> 5, ability_duration |-> 0],
    Archer  |-> [hp |-> 15, attack |-> 4, defense |-> 1, attack_range |-> 4,
                 move_range |-> 2, vision_range |-> 4, cost |-> 60, xp_value |-> 12,
                 ability |-> "Long Shot", ability_cooldown |-> 4, ability_duration |-> 0],
    Cavalry |-> [hp |-> 30, attack |-> 7, defense |-> 2, attack_range |-> 1,
                 move_range |-> 5, vision_range |-> 3, cost |-> 80, xp_value |-> 15,
                 ability |-> "Charge", ability_cooldown |-> 5, ability_duration |-> 1],
    Mage    |-> [hp |-> 12, attack |-> 5, defense |-> 0, attack_range |-> 3,
                 move_range |-> 2, vision_range |-> 3, cost |-> 70, xp_value |-> 15,
                 ability |-> "Fireball", ability_cooldown |-> 6, ability_duration |-> 0],
    Healer  |-> [hp |-> 15, attack |-> 1, defense |-> 1, attack_range |-> 1,
                 move_range |-> 3, vision_range |-> 3, cost |-> 75, xp_value |-> 8,
                 ability |-> "Heal", ability_cooldown |-> 3, ability_duration |-> 0],
    Scout   |-> [hp |-> 12, attack |-> 2, defense |-> 0, attack_range |-> 1,
                 move_range |-> 6, vision_range |-> 5, cost |-> 40, xp_value |-> 8,
                 ability |-> "Evade", ability_cooldown |-> 4, ability_duration |-> 1],
    Base    |-> [hp |-> BASE_STARTING_HP, attack |-> 0, defense |-> 2, attack_range |-> 0,
                 move_range |-> 0, vision_range |-> 2, cost |-> 0, xp_value |-> 50,
                 ability |-> "None", ability_cooldown |-> 0, ability_duration |-> 0] ]

UnitTypes == DOMAIN UNIT_STATS

(* XP_LEVELS: level -> (threshold, cumulative-bonus step) *)
XP_LEVELS ==
  << [xp |-> 0,   hp |-> 0,  attack |-> 0, defense |-> 0],
     [xp |-> 20,  hp |-> 5,  attack |-> 1, defense |-> 0],
     [xp |-> 50,  hp |-> 5,  attack |-> 1, defense |-> 1],
     [xp |-> 100, hp |-> 10, attack |-> 2, defense |-> 1] >>

STATUS_EFFECTS_INFO == {"Poison", "Stun", "Evade", "Shield Wall", "Charge"}

(* distance: Manhattan distance of two positions *)
distance(p, q) == Abs(p[1] - q[1]) + Abs(p[2] - q[2])

is_valid_coordinate(pos) ==
  /\ 0 <= pos[1] /\ pos[1] < MAP_WIDTH
  /\ 0 <= pos[2] /\ pos[2] < MAP_HEIGHT

(* Base positions of Game.__init__ *)
p1_base_pos == <<1, 1>>
p2_base_pos == <<MAP_WIDTH - 2, MAP_HEIGHT - 2>>

(* The terrain layout handed to Game(map_layout): the two base cells are   *)
(* "B" as in the program's default layout; a forest and a mountain column  *)
(* stand between the camps and a gold mine lies next to the first base.    *)
map_layout(pos) ==
  IF pos = p1_base_pos \/ pos = p2_base_pos THEN "B"
  ELSE IF pos = <<2, 0>> THEN "F"
  ELSE IF pos = <<3, 0>> THEN "M"
  ELSE IF pos = <<0, 2>> THEN "G"
  ELSE "P"

Tile(pos) == TERRAIN_TYPES[map_layout(pos)]

(* ------------------------------- units -------------------------------- *)
(* Sums of the per-level bonuses of levels 2..level *)
RECURSIVE LevelBonus(_, _)
LevelBonus(level, stat) ==
  IF level < 2 THEN 0
  ELSE (IF stat = "hp" THEN XP_LEVELS[level].hp
        ELSE IF stat = "attack" THEN XP_LEVELS[level].attack
        ELSE XP_LEVELS[level].defense) + LevelBonus(level - 1, stat)

max_hp(u) == UNIT_STATS[u.type].hp + LevelBonus(u.level, "hp")

(* Unit.__init__ *)
NewUnit(player, n, type, pos) ==
  [ player |-> player, n |-> n, type |-> type, position |-> pos, is_alive |-> TRUE,
    level |-> 1, xp |-> 0, hp |-> UNIT_STATS[type].hp,
    attack |-> UNIT_STATS[type].attack, defense |-> UNIT_STATS[type].defense,
    ability_cooldown_timer |-> 0, ability_active_timer |-> 0,
    has_moved |-> FALSE, has_attacked |-> FALSE, has_used_ability |-> FALSE,
    status_effects |-> << >> ]

attack_range(u) == UNIT_STATS[u.type].attack_range
ability_name(u) == UNIT_STATS[u.type].ability

(* status_effects is a dict kept in insertion order: a sequence of         *)
(* <<effect, duration>> pairs with distinct effects.                       *)
HasStatus(u, e) == \E i \in 1 .. Len(u.status_effects) : u.status_effects[i][1] = e

(* Unit.apply_status: set or refresh the duration *)
apply_status(u, e, duration) ==
  IF e \notin STATUS_EFFECTS_INFO THEN u
  ELSE IF HasStatus(u, e)
       THEN [u EXCEPT !.status_effects =
               [i \in 1 .. Len(u.status_effects) |->
                  IF u.status_effects[i][1] = e THEN <<e, duration>>
                  ELSE u.status_effects[i]]]
       ELSE [u EXCEPT !.status_effects = Append(u.status_effects, <<e, duration>>)]

(* Unit.level_up *)
level_up(u) ==
  IF u.level >= MAX_LEVEL THEN u
  ELSE LET l == u.level + 1
           v == [u EXCEPT !.level = l]
       IN [v EXCEPT !.hp = max_hp(v),
                    !.attack = UNIT_STATS[u.type].attack + LevelBonus(l, "attack"),
                    !.defense = UNIT_STATS[u.type].defense + LevelBonus(l, "defense"),
                    !.xp = IF l < MAX_LEVEL THEN u.xp ELSE 0]

(* xp_to_next_level, which level_up keeps equal to the next threshold *)
xp_to_next_level(u) == XP_LEVELS[u.level + 1].xp

(* A variant of LevelLoop that rises one level at most *)
LevelLoop_once(u) ==
  IF u.level < MAX_LEVEL /\ u.xp >= xp_to_next_level(u) THEN level_up(u) ELSE u

RECURSIVE LevelLoop(_)
LevelLoop(u) ==
  IF u.level < MAX_LEVEL /\ u.xp >= xp_to_next_level(u) THEN LevelLoop(level_up(u)) ELSE u

(* A variant of gain_xp that grants nothing *)
gain_xp_nothing(u, amount) == u

(* Unit.gain_xp *)
gain_xp(u, amount) ==
  IF u.level >= MAX_LEVEL THEN u
  ELSE LevelLoop([u EXCEPT !.xp = u.xp + amount])

(* Unit.can_retaliate *)
can_retaliate(u) ==
  /\ u.is_alive
  /\ attack_range(u) >= 1
  /\ ~u.has_attacked
  /\ ~HasStatus(u, "Stun")

(* A variant of actual_damage without the floor of 1 *)
actual_damage_unfloored(u, damage) ==
  damage - (u.defense + (IF HasStatus(u, "Evade") THEN 2 ELSE 0)
                      + Tile(u.position).defense_bonus)

(* The damage one call of take_damage deals to unit u for a given power *)
actual_damage(u, damage) ==
  LET effective_defense ==
        u.defense
        + (IF ability_name(u) = "Shield Wall" /\ u.ability_active_timer > 0 THEN 3 ELSE 0)
        + (IF HasStatus(u, "Evade") THEN 2 ELSE 0)
      total_defense == effective_defense + Tile(u.position).defense_bonus
  IN Max(1, damage - total_defense)

(* What the hit log keeps of one call of take_damage on unit u: the power  *)
(* passed, the unit's hp, defense, Evade status and cell when the call     *)
(* starts, and its hp after "self.hp -= actual_damage" and the clamp to 0. *)
HitFacts(u, damage, after) ==
  [power |-> damage, hp |-> u.hp, defense |-> u.defense,
   evade |-> HasStatus(u, "Evade"), position |-> u.position, after |-> after]

(* Unit.take_damage on the unit list us: target t, attacker a (NoUnit for  *)
(* none).  Returns the new unit list and the log of the hits dealt, each   *)
(* <<attacker, target, amount, facts>>, in the order they land.            *)
RECURSIVE take_damage(_, _, _, _)
take_damage(us, t, damage, a) ==
  IF ~us[t].is_alive THEN [us |-> us, hits |-> << >>]
  ELSE
    LET actual == actual_damage(us[t], damage)
        hp1 == us[t].hp - actual
        hit == << <<a, t, actual, HitFacts(us[t], damage, Max(0, hp1))>> >>
    IN IF hp1 <= 0
       THEN LET us1 == [us EXCEPT ![t].hp = 0, ![t].is_alive = FALSE]
            IN [us |-> IF a # NoUnit /\ us1[a].is_alive
                       THEN [us1 EXCEPT ![a] = gain_xp(us1[a], UNIT_STATS[us1[t].type].xp_value)]
                       ELSE us1,
                hits |-> hit]
       ELSE LET us1 == [us EXCEPT ![t].hp = hp1]
            IN IF /\ a # NoUnit
                  /\ us1[a].is_alive
                  /\ can_retaliate(us1[t])
                  /\ distance(us1[t].position, us1[a].position) <= attack_range(us1[t])
               THEN LET r == take_damage(us1, a, us1[t].attack, t)
                    IN [us |-> [r.us EXCEPT ![t].has_attacked = TRUE],
                        hits |-> hit \o r.hits]
               ELSE [us |-> us1, hits |-> hit]

(* ------------------------- the match state --------------------------- *)
(* A match value m holds what the commands mutate:                         *)
(*   m.units  the units in creation order (Player.units of both players),  *)
(*   m.tiles  Tile.unit of every cell (a unit index or NoUnit),            *)
(*   m.vis    Player.visibility_map of both players (0, 1 or 2 per cell),  *)
(*   m.gold, m.next_unit_id_counter  per player.                           *)
Players == {0, 1}
Opponent(p) == 1 - p

Indices(us) == 1 .. Len(us)

(* Player.units as the increasing sequence of unit indices of player p *)
PlayerUnits(us, p) == SelectSeq([i \in Indices(us) |-> i], LAMBDA i : us[i].player = p)

(* Player.get_alive_units *)
get_alive_units(us, p) ==
  SelectSeq([i \in Indices(us) |-> i], LAMBDA i : us[i].player = p /\ us[i].is_alive)

(* Player.base_unit: the first unit a player creates *)
base_unit(us, p) == CHOOSE i \in Indices(us) : us[i].player = p /\ us[i].type = "Base"

(* A grid that never reports a cell as taken: the fault that C8 must catch *)
Occupied_never(m, pos) == FALSE

(* "tile.unit and tile.unit.is_alive" *)
Occupied(m, pos) == m.tiles[pos] # NoUnit /\ m.units[m.tiles[pos]].is_alive

(* GameMap.get_unit_at with check_visibility=False *)
get_unit_at(m, pos) ==
  IF is_valid_coordinate(pos) /\ Occupied(m, pos) THEN m.tiles[pos] ELSE NoUnit

Dirs4 == << <<0, 1>>, <<0, -1>>, <<1, 0>>, <<-1, 0>> >>
Dirs8 == Dirs4 \o << <<1, 1>>, <<1, -1>>, <<-1, 1>>, <<-1, -1>> >>
Step(pos, d) == <<pos[1] + d[1], pos[2] + d[2]>>

(* ---- GameMap as a value ----                                            *)
(* A game_map holds width, height, terrain (the terrain key of every cell) *)
(* and unit (whether the cell's tile holds a live unit: "tile.unit and     *)
(* tile.unit.is_alive").                                                   *)
GridCells(game_map) == (0 .. game_map.width - 1) \X (0 .. game_map.height - 1)

(* GameMap.is_valid_coordinate of a game_map value *)
GridValid(game_map, pos) ==
  /\ 0 <= pos[1] /\ pos[1] < game_map.width
  /\ 0 <= pos[2] /\ pos[2] < game_map.height

(* The GameMap of a match in progress *)
GameMapOf(m) ==
  [width |-> MAP_WIDTH, height |-> MAP_HEIGHT,
   terrain |-> [c \in Cells |-> map_layout(c)],
   unit |-> [c \in Cells |-> Occupied(m, c)]]

(* ---- Unit.get_valid_moves: the queue-driven search, as written ---- *)
(* st = [q, visited, reach]; visited maps a cell to its best cost, -1 when absent *)
RECURSIVE MovesNeighbors(_, _, _, _, _, _)
MovesNeighbors(game_map, st, curr_pos, curr_cost, move_range, i) ==
  IF i > Len(Dirs4) THEN st
  ELSE
    LET next_pos == Step(curr_pos, Dirs4[i])
        skip == MovesNeighbors(game_map, st, curr_pos, curr_cost, move_range, i + 1)
    IN IF ~GridValid(game_map, next_pos) THEN skip
       ELSE LET new_cost == curr_cost + TERRAIN_TYPES[game_map.terrain[next_pos]].move_cost
            IN IF new_cost > move_range THEN skip
               ELSE IF game_map.unit[next_pos] THEN skip
               ELSE IF st.visited[next_pos] >= 0 /\ st.visited[next_pos] <= new_cost THEN skip
               ELSE MovesNeighbors(game_map,
                      [q |-> Append(st.q, <<next_pos, new_cost>>),
                       visited |-> [st.visited EXCEPT ![next_pos] = new_cost],
                       reach |-> st.reach \cup {next_pos}],
                      curr_pos, curr_cost, move_range, i + 1)

(* A variant of MovesLoop that expands the start cell only *)
MovesLoop_start_only(game_map, st, move_range) ==
  MovesNeighbors(game_map, [st EXCEPT !.q = Tail(st.q)], Head(st.q)[1], Head(st.q)[2],
                 move_range, 1).reach

RECURSIVE MovesLoop(_, _, _)
MovesLoop(game_map, st, move_range) ==
  IF st.q = << >> THEN st.reach
  ELSE MovesLoop(game_map,
         MovesNeighbors(game_map, [st EXCEPT !.q = Tail(st.q)], Head(st.q)[1], Head(st.q)[2],
                        move_range, 1),
         move_range)

(* A variant of ValidMoves that ignores the Stun status *)
ValidMoves_stunned_too(game_map, u) ==
  MovesLoop(game_map,
    [q |-> << <<u.position, 0>> >>,
     visited |-> [c \in GridCells(game_map) |-> IF c = u.position THEN 0 ELSE -1],
     reach |-> {u.position}],
    UNIT_STATS[u.type].move_range + (IF HasStatus(u, "Charge") THEN 2 ELSE 0))

(* A variant of ValidMoves without the Charge bonus *)
ValidMoves_no_charge(game_map, u) ==
  IF HasStatus(u, "Stun") THEN {u.position}
  ELSE MovesLoop(game_map,
         [q |-> << <<u.position, 0>> >>,
          visited |-> [c \in GridCells(game_map) |-> IF c = u.position THEN 0 ELSE -1],
          reach |-> {u.position}],
         UNIT_STATS[u.type].move_range)

(* Unit.get_valid_moves(self, game_map) for the unit value u *)
ValidMoves(game_map, u) ==
  IF HasStatus(u, "Stun") THEN {u.position}
  ELSE MovesLoop(game_map,
         [q |-> << <<u.position, 0>> >>,
          visited |-> [c \in GridCells(game_map) |-> IF c = u.position THEN 0 ELSE -1],
          reach |-> {u.position}],
         UNIT_STATS[u.type].move_range + (IF HasStatus(u, "Charge") THEN 2 ELSE 0))

(* Unit.get_valid_moves of unit ui on the map of match m *)
get_valid_moves(m, ui) == ValidMoves(GameMapOf(m), m.units[ui])

(* ---- Node and heapq, as a_star_pathfinding uses them ---- *)
(* A node is [position, path, g_cost, h_cost, f_cost]; path stands for the *)
(* parent chain: the positions from the start node to this one.            *)
Node(position, path, g_cost, h_cost) ==
  [position |-> position, path |-> path, g_cost |-> g_cost, h_cost |-> h_cost,
   f_cost |-> g_cost + h_cost]

(* Node.__lt__ *)
NodeLt(a, b) == a.f_cost < b.f_cost

(* A heap is the list heapq keeps; list index k is element k + 1 here.     *)
(* heapq._siftdown(heap, startpos, pos) moving newitem                     *)
RECURSIVE SiftDown(_, _, _, _)
SiftDown(heap, startpos, pos, newitem) ==
  IF pos > startpos /\ NodeLt(newitem, heap[((pos - 1) \div 2) + 1])
  THEN SiftDown([heap EXCEPT ![pos + 1] = heap[((pos - 1) \div 2) + 1]],
                startpos, (pos - 1) \div 2, newitem)
  ELSE [heap EXCEPT ![pos + 1] = newitem]

(* The child heapq._siftup moves up: the right one unless the left is smaller *)
SmallerChild(heap, childpos) ==
  IF childpos + 1 < Len(heap) /\ ~NodeLt(heap[childpos + 1], heap[childpos + 2])
  THEN childpos + 1 ELSE childpos

(* heapq._siftup(heap, pos) moving newitem *)
RECURSIVE SiftUp(_, _, _, _)
SiftUp(heap, startpos, pos, newitem) ==
  IF 2 * pos + 1 < Len(heap)
  THEN SiftUp([heap EXCEPT ![pos + 1] = heap[SmallerChild(heap, 2 * pos + 1) + 1]],
              startpos, SmallerChild(heap, 2 * pos + 1), newitem)
  ELSE SiftDown([heap EXCEPT ![pos + 1] = newitem], startpos, pos, newitem)

heappush(heap, item) == SiftDown(Append(heap, item), 0, Len(heap), item)

(* heapq.heappop: [item, heap] *)
heappop(heap) ==
  IF Len(heap) = 1 THEN [item |-> heap[1], heap |-> << >>]
  ELSE [item |-> heap[1],
        heap |-> SiftUp([SubSeq(heap, 1, Len(heap) - 1) EXCEPT ![1] = heap[Len(heap)]],
                        0, 0, heap[Len(heap)])]

(* heapq.heapify: _siftup at n // 2 - 1 down to 0 *)
RECURSIVE HeapifyFrom(_, _)
HeapifyFrom(heap, i) ==
  IF i < 0 THEN heap ELSE HeapifyFrom(SiftUp(heap, i, i, heap[i + 1]), i - 1)

heapify(heap) == HeapifyFrom(heap, (Len(heap) \div 2) - 1)

(* ---- a_star_pathfinding ---- *)
(* unit_move_costs maps a terrain key to a cost, or to NoCost (None)       *)
NoCost == -1
(* "return None" *)
NoPath == << >>

(* The first index of open_list whose node equals (Node.__eq__) one at pos, 0 for none *)
FoundInOpen(open_list, pos) ==
  IF \E k \in 1 .. Len(open_list) : open_list[k].position = pos
  THEN CHOOSE k \in 1 .. Len(open_list) :
         /\ open_list[k].position = pos
         /\ \A j \in 1 .. k - 1 : open_list[j].position # pos
  ELSE 0

(* open_list after neighbor_node has been looked up in it *)
Offered(open_list, neighbor_node, k) ==
  IF k = 0 THEN heappush(open_list, neighbor_node)
  ELSE IF neighbor_node.g_cost < open_list[k].g_cost
       THEN heapify([open_list EXCEPT ![k] = neighbor_node])
       ELSE open_list

(* The loop over the four neighbours of current_node: the new open_list *)
RECURSIVE AStarNeighbors(_, _, _, _, _, _, _)
AStarNeighbors(game_map, end_pos, unit_move_costs, current_node, open_list, closed_set, i) ==
  IF i > Len(Dirs4) THEN open_list
  ELSE IF \/ ~GridValid(game_map, Step(current_node.position, Dirs4[i]))
          \/ Step(current_node.position, Dirs4[i]) \in closed_set
          \/ /\ game_map.unit[Step(current_node.position, Dirs4[i])]
             /\ Step(current_node.position, Dirs4[i]) # end_pos
          \/ unit_move_costs[game_map.terrain[Step(current_node.position, Dirs4[i])]] = NoCost
       THEN AStarNeighbors(game_map, end_pos, unit_move_costs, current_node, open_list,
                           closed_set, i + 1)
       ELSE AStarNeighbors(game_map, end_pos, unit_move_costs, current_node,
              Offered(open_list,
                      Node(Step(current_node.position, Dirs4[i]),
                           Append(current_node.path, Step(current_node.position, Dirs4[i])),
                           current_node.g_cost
                             + unit_move_costs[game_map.terrain[Step(current_node.position,
                                                                     Dirs4[i])]],
                           distance(Step(current_node.position, Dirs4[i]), end_pos)),
                      FoundInOpen(open_list, Step(current_node.position, Dirs4[i]))),
              closed_set, i + 1)

(* "while open_list": popped is what heappop returned *)
RECURSIVE AStarLoop(_, _, _, _, _)
AStarPopped(game_map, end_pos, unit_move_costs, popped, closed_set) ==
  IF popped.item.position = end_pos THEN popped.item.path
  ELSE AStarLoop(game_map, end_pos, unit_move_costs,
                 AStarNeighbors(game_map, end_pos, unit_move_costs, popped.item, popped.heap,
                                closed_set \cup {popped.item.position}, 1),
                 closed_set \cup {popped.item.position})

AStarLoop(game_map, end_pos, unit_move_costs, open_list, closed_set) ==
  IF open_list = << >> THEN NoPath
  ELSE AStarPopped(game_map, end_pos, unit_move_costs, heappop(open_list), closed_set)

a_star_pathfinding(game_map, start_pos, end_pos, unit_move_costs) ==
  AStarLoop(game_map, end_pos, unit_move_costs,
            heappush(<< >>, Node(start_pos, <<start_pos>>, 0, distance(start_pos, end_pos))),
            {})

(* ---- Player.update_visibility: one unit's flood fill, as written ---- *)
(* st = [q, visited]; every visited cell is marked currently visible *)
RECURSIVE VisionNeighbors(_, _, _, _, _)
VisionNeighbors(st, curr_pos, cost_spent, vision_range, i) ==
  IF i > Len(Dirs8) THEN st
  ELSE
    LET next_pos == Step(curr_pos, Dirs8[i])
        skip == VisionNeighbors(st, curr_pos, cost_spent, vision_range, i + 1)
    IN IF ~is_valid_coordinate(next_pos) THEN skip
       ELSE IF next_pos \in st.visited THEN skip
       ELSE LET new_cost == cost_spent + Tile(next_pos).vision_cost
            IN IF new_cost <= vision_range
               THEN VisionNeighbors([q |-> Append(st.q, <<next_pos, new_cost>>),
                                     visited |-> st.visited \cup {next_pos}],
                                    curr_pos, cost_spent, vision_range, i + 1)
               ELSE IF cost_spent < vision_range /\ new_cost > vision_range
               THEN VisionNeighbors([st EXCEPT !.visited = st.visited \cup {next_pos}],
                                    curr_pos, cost_spent, vision_range, i + 1)
               ELSE skip

RECURSIVE VisionLoop(_, _)
VisionLoop(st, vision_range) ==
  IF st.q = << >> THEN st.visited
  ELSE LET curr_pos == Head(st.q)[1]
           cost_spent == Head(st.q)[2]
           rest == [st EXCEPT !.q = Tail(st.q)]
       IN IF cost_spent >= vision_range THEN VisionLoop(rest, vision_range)
          ELSE VisionLoop(VisionNeighbors(rest, curr_pos, cost_spent, vision_range, 1),
                          vision_range)

(* The cells one unit at pos marks visible *)
UnitVision(pos, vision_range) ==
  VisionLoop([q |-> << <<pos, 0>> >>, visited |-> {pos}], vision_range)

(* The flood fill depends on the terrain only: one table for all units *)
VisionTable ==
  [pos \in Cells |-> [type \in UnitTypes |-> UnitVision(pos, UNIT_STATS[type].vision_range)]]

(* The cells the live units of player p see *)
SeenCells(us, p) ==
  UNION { VisionTable[us[i].position][us[i].type] :
            i \in { j \in Indices(us) : us[j].player = p /\ us[j].is_alive } }

(* A variant of update_visibility that forgets the cells no longer seen *)
update_visibility_forgetting(m, p) ==
  [m EXCEPT !.vis[p] = [c \in Cells |-> IF c \in SeenCells(m.units, p) THEN 2 ELSE 0]]

(* Player.update_visibility *)
update_visibility(m, p) ==
  LET seen == SeenCells(m.units, p)
  IN [m EXCEPT !.vis[p] =
        [c \in Cells |-> IF c \in seen THEN 2
                         ELSE IF m.vis[p][c] = 2 THEN 1 ELSE m.vis[p][c]]]

(* ------------------------------ the grid ------------------------------ *)
(* GameMap.place_unit *)
place_unit(m, ui, pos) ==
  IF is_valid_coordinate(pos) /\ ~Occupied(m, pos)
  THEN [m EXCEPT !.tiles[pos] = ui, !.units[ui].position = pos]
  ELSE m

(* GameMap.remove_unit *)
remove_unit(m, ui) ==
  IF is_valid_coordinate(m.units[ui].position) /\ m.tiles[m.units[ui].position] = ui
  THEN [m EXCEPT !.tiles[m.units[ui].position] = NoUnit]
  ELSE m

(* A variant of move_unit that leaves the old cell's reference in place *)
move_unit_keeps_old_cell(m, ui, new_pos) == place_unit(m, ui, new_pos)

(* GameMap.move_unit *)
move_unit(m, ui, new_pos) ==
  place_unit(IF is_valid_coordinate(m.units[ui].position)
             THEN [m EXCEPT !.tiles[m.units[ui].position] = NoUnit]
             ELSE m,
             ui, new_pos)

(* ------------------------------ building ------------------------------ *)
(* Player.add_unit: [m, unit], unit = NoUnit when the unit is not placed *)
add_unit(m, p, type, pos) ==
  IF type \notin UnitTypes \/ ~is_valid_coordinate(pos) \/ Occupied(m, pos)
  THEN [m |-> m, unit |-> NoUnit]
  ELSE LET ui == Len(m.units) + 1
           m1 == [m EXCEPT !.units = Append(m.units,
                                       NewUnit(p, m.next_unit_id_counter[p], type, pos)),
                           !.next_unit_id_counter[p] = m.next_unit_id_counter[p] + 1]
       IN [m |-> place_unit(m1, ui, pos), unit |-> ui]

(* A variant of FindSpawn that takes a free cell of any terrain *)
RECURSIVE FindSpawn_any_terrain(_, _, _)
FindSpawn_any_terrain(m, base_pos, i) ==
  IF i > Len(Dirs8) THEN << >>
  ELSE IF /\ is_valid_coordinate(Step(base_pos, Dirs8[i]))
          /\ ~Occupied(m, Step(base_pos, Dirs8[i]))
       THEN Step(base_pos, Dirs8[i])
       ELSE FindSpawn_any_terrain(m, base_pos, i + 1)

(* The first free Plains cell around the base in the scan order of build_unit, *)
(* << >> when there is none                                                     *)
RECURSIVE FindSpawn(_, _, _)
FindSpawn(m, base_pos, i) ==
  IF i > Len(Dirs8) THEN << >>
  ELSE LET check_pos == Step(base_pos, Dirs8[i])
       IN IF /\ is_valid_coordinate(check_pos)
             /\ ~Occupied(m, check_pos)
             /\ map_layout(check_pos) = "P"
          THEN check_pos
          ELSE FindSpawn(m, base_pos, i + 1)

(* Player.build_unit: [m, ok] *)
build_unit(m, p, type) ==
  LET b == base_unit(m.units, p)
      cost == UNIT_STATS[type].cost
      spawn_pos == FindSpawn(m, m.units[b].position, 1)
      r == add_unit([m EXCEPT !.gold[p] = m.gold[p] - cost], p, type, spawn_pos)
  IN IF ~m.units[b].is_alive THEN [m |-> m, ok |-> FALSE]
     ELSE IF type \notin UnitTypes THEN [m |-> m, ok |-> FALSE]
     ELSE IF cost = 0 THEN [m |-> m, ok |-> FALSE]
     ELSE IF m.gold[p] < cost THEN [m |-> m, ok |-> FALSE]
     ELSE IF spawn_pos = << >> THEN [m |-> m, ok |-> FALSE]
     ELSE IF r.unit # NoUnit THEN [m |-> update_visibility(r.m, p), ok |-> TRUE]
     ELSE [m |-> [r.m EXCEPT !.gold[p] = r.m.gold[p] + cost], ok |-> FALSE]

(* Player.collect_income *)
RECURSIVE SumIncome(_, _)
SumIncome(us, idx) ==
  IF idx = << >> THEN 0
  ELSE Tile(us[Head(idx)].position).income + SumIncome(us, Tail(idx))

collect_income(m, p) ==
  [m EXCEPT !.gold[p] = m.gold[p] + GOLD_PER_TURN + SumIncome(m.units, get_alive_units(m.units, p))]

(* ------------------------------- combat ------------------------------- *)
Sign(d) == IF d < 0 THEN -1 ELSE 1

(* The cell one step back from the target toward the attacker (can_attack's *)
(* simplified line of sight)                                                *)
BlockPos(from, to) ==
  LET dx == to[1] - from[1]
      dy == to[2] - from[2]
  IN IF Abs(dx) > Abs(dy) THEN <<to[1] - Sign(dx), to[2]>>
     ELSE IF Abs(dy) > Abs(dx) THEN <<to[1], to[2] - Sign(dy)>>
     ELSE <<to[1] - Sign(dx), to[2] - Sign(dy)>>

(* The range can_attack checks: Long Shot adds 2 while its timer runs *)
effective_attack_range(u) ==
  attack_range(u) +
    (IF ability_name(u) = "Long Shot" /\ u.ability_active_timer > 0 THEN 2 ELSE 0)

(* Unit.can_attack *)
can_attack(m, ui, ti) ==
  LET u == m.units[ui]
      t == m.units[ti]
      dist == distance(u.position, t.position)
      block_pos == BlockPos(u.position, t.position)
  IN /\ ti # NoUnit
     /\ t.is_alive
     /\ t.player # u.player
     /\ ~HasStatus(u, "Stun")
     /\ dist <= effective_attack_range(u)
     /\ ~ ( /\ attack_range(u) > 1
            /\ dist > 1
            /\ block_pos # u.position
            /\ is_valid_coordinate(block_pos)
            /\ map_layout(block_pos) \in {"M", "F"} )

(* get_possible_targets without its visibility test: the fault that C6    *)
(* must catch                                                              *)
get_possible_targets_unseen(m, ui) ==
  IF HasStatus(m.units[ui], "Stun") THEN {}
  ELSE { ti \in Indices(m.units) :
           /\ m.units[ti].player = Opponent(m.units[ui].player)
           /\ m.units[ti].is_alive
           /\ can_attack(m, ui, ti) }

(* Unit.get_possible_targets: the set of the units returned *)
get_possible_targets(m, ui) ==
  IF HasStatus(m.units[ui], "Stun") THEN {}
  ELSE { ti \in Indices(m.units) :
           /\ m.units[ti].player = Opponent(m.units[ui].player)
           /\ m.units[ti].is_alive
           /\ m.vis[m.units[ui].player][m.units[ti].position] = 2
           /\ can_attack(m, ui, ti) }

(* Unit.can_use_ability *)
can_use_ability(u) ==
  /\ ability_name(u) # "None"
  /\ u.ability_cooldown_timer <= 0
  /\ ~HasStatus(u, "Stun")

(* Unit.can_act *)
can_act(u) ==
  /\ ~HasStatus(u, "Stun")
  /\ ~(u.has_moved /\ u.has_attacked)

(* Targets of an ability command: none, a position, or a unit *)
TNone == [kind |-> "none"]
TPos(pos) == [kind |-> "pos", pos |-> pos]
TUnit(ui) == [kind |-> "unit", unit |-> ui]

(* A variant of BlastCells with the square (Chebyshev) blast *)
BlastCells_square(target) ==
  << <<target[1] - 1, target[2] - 1>>, <<target[1] - 1, target[2]>>,
     <<target[1] - 1, target[2] + 1>>, <<target[1], target[2] - 1>>, target,
     <<target[1], target[2] + 1>>, <<target[1] + 1, target[2] - 1>>,
     <<target[1] + 1, target[2]>>, <<target[1] + 1, target[2] + 1>> >>

(* The cells of a Fireball at target, in the order the loops visit them *)
BlastCells(target) ==
  << <<target[1] - 1, target[2]>>, <<target[1], target[2] - 1>>, target,
     <<target[1], target[2] + 1>>, <<target[1] + 1, target[2]>> >>

(* affected_units of a Fireball: the live units on the blast cells, in order *)
RECURSIVE AffectedUnits(_, _, _)
AffectedUnits(m, cells, i) ==
  IF i > Len(cells) THEN << >>
  ELSE (IF get_unit_at(m, cells[i]) # NoUnit THEN << get_unit_at(m, cells[i]) >> ELSE << >>)
       \o AffectedUnits(m, cells, i + 1)

(* The Fireball's loop over the hit units; poisoned is the set of units    *)
(* whose 30% poison roll succeeds.  r is what take_damage made of the unit *)
(* h in hand.                                                              *)
RECURSIVE FireballHits(_, _, _, _, _, _)
FireballPoison(r, h, hits, ui, affected, fireball_damage, poisoned) ==
  FireballHits(IF r.us[h].is_alive /\ h \in poisoned
               THEN [r.us EXCEPT ![h] = apply_status(r.us[h], "Poison", 3)]
               ELSE r.us,
               hits \o r.hits, ui, Tail(affected), fireball_damage, poisoned)

FireballHits(us, hits, ui, affected, fireball_damage, poisoned) ==
  IF affected = << >> THEN [us |-> us, hits |-> hits]
  ELSE FireballPoison(take_damage(us, Head(affected), fireball_damage, ui), Head(affected),
                      hits, ui, affected, fireball_damage, poisoned)

(* A Heal without its cap: the fault that C9 must catch *)
heal_amount_uncapped(u, t) == 10 + u.level

(* The hp a Heal restores: 10 + level, capped at the missing hp *)
heal_amount(u, t) == Min(10 + u.level, max_hp(t) - t.hp)

(* The refund at the end of use_ability and in the Fireball range check *)
Refund(m, ui) ==
  [m EXCEPT !.units[ui].ability_cooldown_timer = 0,
            !.units[ui].has_used_ability = FALSE,
            !.units[ui].has_attacked = FALSE]

(* The result of a Fireball whose loop left r *)
Blasted(m, r) == [m |-> [m EXCEPT !.units = r.us], ok |-> TRUE, hits |-> r.hits]

(* Unit.use_ability: [m, ok, hits] *)
use_ability(m, ui, target, poisoned) ==
  LET u == m.units[ui]
      fail(mm) == [m |-> mm, ok |-> FALSE, hits |-> << >>]
      done(mm) == [m |-> mm, ok |-> TRUE, hits |-> << >>]
      m0 == [m EXCEPT !.units[ui].ability_cooldown_timer = UNIT_STATS[u.type].ability_cooldown,
                      !.units[ui].has_used_ability = TRUE,
                      !.units[ui].has_attacked = TRUE]
  IN IF ~can_use_ability(u) THEN fail(m)
     ELSE CASE ability_name(u) = "Bash" ->
                 IF /\ target.kind = "unit"
                    /\ m0.units[target.unit].player # u.player
                    /\ m0.units[target.unit].is_alive
                    /\ distance(u.position, m0.units[target.unit].position) = 1
                 THEN done([m0 EXCEPT !.units[target.unit] =
                              apply_status(m0.units[target.unit], "Stun", 1)])
                 ELSE fail(Refund(m0, ui))
            [] ability_name(u) = "Long Shot" ->
                 done([m0 EXCEPT !.units[ui].ability_active_timer = 1 + 1,
                                 !.units[ui].has_attacked = FALSE])
            [] ability_name(u) = "Charge" ->
                 done([m0 EXCEPT !.units[ui] =
                         [apply_status(m0.units[ui], "Charge", 1) EXCEPT !.has_attacked = FALSE]])
            [] ability_name(u) = "Fireball" ->
                 IF target.kind = "pos" /\ is_valid_coordinate(target.pos)
                 THEN IF distance(u.position, target.pos) > attack_range(u)
                      THEN fail(Refund(m0, ui))
                      ELSE Blasted(m0, FireballHits(m0.units, << >>, ui,
                                         AffectedUnits(m0, BlastCells(target.pos), 1),
                                         u.attack + 2, poisoned))
                 ELSE fail(Refund(m0, ui))
            [] ability_name(u) = "Heal" ->
                 IF /\ target.kind = "unit"
                    /\ m0.units[target.unit].is_alive
                    /\ m0.units[target.unit].player = u.player
                    /\ distance(u.position, m0.units[target.unit].position) <= attack_range(u)
                 THEN LET t == m0.units[target.unit]
                      IN done([m0 EXCEPT !.units[target.unit].hp = t.hp + heal_amount(u, t)])
                 ELSE fail(Refund(m0, ui))
            [] ability_name(u) = "Evade" ->
                 done([m0 EXCEPT !.units[ui] =
                         [apply_status(m0.units[ui], "Evade", UNIT_STATS[u.type].ability_duration)
                            EXCEPT !.has_attacked = FALSE]])
            [] OTHER -> fail(Refund(m0, ui))

(* --------------------------- status effects --------------------------- *)
SetDuration(u, e, d) ==
  [u EXCEPT !.status_effects =
     [i \in 1 .. Len(u.status_effects) |->
        IF u.status_effects[i][1] = e THEN <<e, d>> ELSE u.status_effects[i]]]

(* A variant of RemoveEffects that leaves the expired effects in place *)
RemoveEffects_none(u, gone) == u

RemoveEffects(u, gone) ==
  [u EXCEPT !.status_effects = SelectSeq(u.status_effects, LAMBDA s : s[1] \notin gone)]

(* The loop of tick_status_effects over the copy current_effects; r is    *)
(* what the effect in hand (a Poison tick through take_damage) left        *)
RECURSIVE TickLoop(_, _, _, _, _, _)
TickEffect(r, hits, ui, current_effects, i, effects_to_remove) ==
  LET effect == current_effects[i][1]
      duration == current_effects[i][2]
  IN IF ~r.us[ui].is_alive
     THEN [us |-> [r.us EXCEPT ![ui] = RemoveEffects(r.us[ui], effects_to_remove)],
           hits |-> hits \o r.hits]
     ELSE IF duration - 1 <= 0
          THEN TickLoop(r.us, hits \o r.hits, ui, current_effects, i + 1,
                        effects_to_remove \cup {effect})
          ELSE TickLoop([r.us EXCEPT ![ui] = SetDuration(r.us[ui], effect, duration - 1)],
                        hits \o r.hits, ui, current_effects, i + 1, effects_to_remove)

TickLoop(us, hits, ui, current_effects, i, effects_to_remove) ==
  IF i > Len(current_effects)
  THEN [us |-> [us EXCEPT ![ui] = RemoveEffects(us[ui], effects_to_remove)], hits |-> hits]
  ELSE TickEffect(IF current_effects[i][1] = "Poison"
                  THEN take_damage(us, ui, POISON_DAMAGE, NoUnit)
                  ELSE [us |-> us, hits |-> << >>],
                  hits, ui, current_effects, i, effects_to_remove)

(* Unit.tick_status_effects: [us, hits] *)
tick_status_effects(us, ui) ==
  IF ~us[ui].is_alive THEN [us |-> us, hits |-> << >>]
  ELSE TickLoop(us, << >>, ui, us[ui].status_effects, 1, {})

(* A variant of tick_cooldowns that skips a stunned unit *)
tick_cooldowns_unless_stunned(u) ==
  IF HasStatus(u, "Stun") THEN u
  ELSE [u EXCEPT !.ability_cooldown_timer = IF @ > 0 THEN @ - 1 ELSE @,
                 !.ability_active_timer = IF @ > 0 THEN @ - 1 ELSE @]

(* Unit.tick_cooldowns *)
tick_cooldowns(u) ==
  [u EXCEPT !.ability_cooldown_timer = IF @ > 0 THEN @ - 1 ELSE @,
            !.ability_active_timer = IF @ > 0 THEN @ - 1 ELSE @]

(* Unit.reset_turn *)
reset_turn(u) ==
  IF HasStatus(u, "Stun") THEN u
  ELSE [u EXCEPT !.has_moved = FALSE, !.has_attacked = FALSE, !.has_used_ability = FALSE]

(* The unit loop of start_turn_updates over the units alive at its start *)
(* r is what tick_status_effects left of the unit in hand *)
RECURSIVE UpkeepLoop(_, _, _)
UpkeepUnit(r, ui, hits, idx) ==
  UpkeepLoop(IF r.us[ui].is_alive
             THEN [r.us EXCEPT ![ui] = reset_turn(tick_cooldowns(r.us[ui]))]
             ELSE r.us,
             hits \o r.hits, Tail(idx))

UpkeepLoop(us, hits, idx) ==
  IF idx = << >> THEN [us |-> us, hits |-> hits]
  ELSE UpkeepUnit(tick_status_effects(us, Head(idx)), Head(idx), hits, idx)

(* The end of start_turn_updates: the units the loop left, then the fog *)
Upkept(m, p, r) == [m |-> update_visibility([m EXCEPT !.units = r.us], p), hits |-> r.hits]

(* Player.start_turn_updates: [m, hits] *)
start_turn_updates(m, p) ==
  Upkept(collect_income(m, p), p,
         UpkeepLoop(collect_income(m, p).units, << >>, get_alive_units(m.units, p)))

(* --------------------------- Game.handle_action ------------------------ *)
(* Both players' maps are recomputed (player 2 is the AI) *)
UpdateBoth(m) == update_visibility(update_visibility(m, 0), 1)

(* [m, ok, hits] for action "move" (data a cell), "attack" (data a unit),  *)
(* "ability" (data a target) or "wait"                                     *)
(* The attack branch once take_damage has returned r *)
Attacked(m, ui, data, r) ==
  LET m1 == [m EXCEPT !.units = [r.us EXCEPT ![ui].has_attacked = TRUE]]
  IN [m |-> IF ~m1.units[data].is_alive
            THEN UpdateBoth(IF m1.units[data].type # "Base"
                            THEN remove_unit(m1, data) ELSE m1)
            ELSE m1,
      ok |-> TRUE, hits |-> r.hits]

(* The ability branch once use_ability has returned r *)
AbilityUsed(r) ==
  IF r.ok THEN [m |-> UpdateBoth(r.m), ok |-> TRUE, hits |-> r.hits] ELSE r

handle_action(m, ui, action, data, poisoned) ==
  CASE action = "move" ->
         [m |-> update_visibility(
                  [move_unit(m, ui, data) EXCEPT !.units[ui].has_moved = TRUE],
                  m.units[ui].player),
          ok |-> TRUE, hits |-> << >>]
    [] action = "attack" ->
         Attacked(m, ui, data, take_damage(m.units, data, m.units[ui].attack, ui))
    [] action = "ability" ->
         AbilityUsed(use_ability(m, ui, data, poisoned))
    [] action = "wait" ->
         [m |-> [m EXCEPT !.units[ui].has_moved = TRUE,
                          !.units[ui].has_attacked = TRUE,
                          !.units[ui].has_used_ability = TRUE],
          ok |-> TRUE, hits |-> << >>]

(* A variant of check_win_condition that names the loser *)
check_win_condition_loser(us) ==
  IF ~us[base_unit(us, 1)].is_alive THEN 1
  ELSE IF ~us[base_unit(us, 0)].is_alive THEN 0
  ELSE -1

(* Game.check_win_condition: the winner's id, or -1 for none *)
check_win_condition(us) ==
  IF ~us[base_unit(us, 1)].is_alive THEN 0
  ELSE IF ~us[base_unit(us, 0)].is_alive THEN 1
  ELSE -1

(* ------------------- the AI's choices (perform_ai_turn) ---------------- *)
(* The enemies of player p standing on cells p currently sees, in list order *)
visible_enemies(m, p) ==
  SelectSeq(get_alive_units(m.units, Opponent(p)),
            LAMBDA e : m.vis[p][m.units[e].position] = 2)

(* The first unit of seq with the least key[unit]: a scan that replaces    *)
(* the best on a strictly smaller key only; NoUnit for the empty sequence  *)
RECURSIVE FirstMin(_, _, _, _)
FirstMin(seq, key, best, i) ==
  IF i > Len(seq) THEN best
  ELSE FirstMin(seq, key,
                IF best = NoUnit \/ key[seq[i]] < key[best] THEN seq[i] ELSE best,
                i + 1)

(* Step 1: the type the AI builds, "" for none *)
ai_unit_to_build(m, p) ==
  LET mine == get_alive_units(m.units, p)
      num_my_units == Len(SelectSeq(mine, LAMBDA i : m.units[i].type # "Base"))
      num_opp_units == Len(SelectSeq(get_alive_units(m.units, Opponent(p)),
                                     LAMBDA i : m.units[i].type # "Base"))
      num_scouts == Len(SelectSeq(mine, LAMBDA i : m.units[i].type = "Scout"))
      build_scout_condition == num_scouts = 0 /\ num_my_units < 3
      build_unit_condition == num_my_units < num_opp_units \/ num_my_units < 4
      build_priority == <<"Warrior", "Archer", "Healer", "Mage", "Cavalry">>
      affordable == SelectSeq(build_priority, LAMBDA t : m.gold[p] >= UNIT_STATS[t].cost)
  IN IF m.gold[p] < UNIT_STATS["Scout"].cost THEN ""
     ELSE IF build_scout_condition THEN "Scout"
     ELSE IF build_unit_condition /\ affordable # << >> THEN Head(affordable)
     ELSE ""

(* Healer: the most damaged ally in range below 70% hp (hp/max_hp compared *)
(* as fractions), NoUnit for none                                          *)
RECURSIVE HealScan(_, _, _, _, _)
HealScan(m, ui, allies, best, i) ==
  IF i > Len(allies) THEN best
  ELSE LET f == allies[i]
           fu == m.units[f]
           better == IF best = NoUnit THEN 10 * fu.hp < 7 * max_hp(fu)
                     ELSE fu.hp * max_hp(m.units[best]) < m.units[best].hp * max_hp(fu)
       IN HealScan(m, ui, allies,
                   IF /\ f # ui
                      /\ fu.hp < max_hp(fu)
                      /\ distance(m.units[ui].position, fu.position) <= attack_range(m.units[ui])
                      /\ better
                   THEN f ELSE best,
                   i + 1)

(* Mage: the Fireball cell.  The test "hits > best or score > ... if        *)
(* potential_targets else -1" is -1 (true) because potential_targets stays  *)
(* empty, so every in-range cell with hits >= the running best replaces it. *)
FireballScanCells ==
  [k \in 1 .. MAP_WIDTH * MAP_HEIGHT |-> <<(k - 1) \div MAP_HEIGHT, (k - 1) % MAP_HEIGHT>>]

RECURSIVE FireballScan(_, _, _, _, _)
FireballScan(m, ui, best_score, best_pos, k) ==
  IF k > Len(FireballScanCells) THEN best_pos
  ELSE LET target_pos == FireballScanCells[k]
           p == m.units[ui].player
           hits == Len(SelectSeq(visible_enemies(m, p),
                         LAMBDA e : distance(target_pos, m.units[e].position) <= 1))
       IN IF distance(m.units[ui].position, target_pos) <= attack_range(m.units[ui])
             /\ hits >= best_score
          THEN FireballScan(m, ui, hits, target_pos, k + 1)
          ELSE FireballScan(m, ui, best_score, best_pos, k + 1)

(* Warrior: the adjacent visible enemy of least hp (Mage and Healer count 50 less) *)
bash_target(m, ui) ==
  LET p == m.units[ui].player
      adjacent == SelectSeq(visible_enemies(m, p),
                    LAMBDA e : distance(m.units[ui].position, m.units[e].position) = 1)
      score == [e \in Indices(m.units) |->
                  m.units[e].hp - (IF m.units[e].type \in {"Mage", "Healer"} THEN 50 ELSE 0)]
  IN FirstMin(adjacent, score, NoUnit, 1)

(* The ability phase: [use, target] *)
ai_ability(m, ui) ==
  LET u == m.units[ui]
      p == u.player
      none == [use |-> FALSE, target |-> TNone]
  IN CASE u.type = "Healer" ->
            LET t == HealScan(m, ui, get_alive_units(m.units, p), NoUnit, 1)
            IN IF t # NoUnit THEN [use |-> TRUE, target |-> TUnit(t)] ELSE none
       [] u.type = "Mage" ->
            LET pos == FireballScan(m, ui, 1, << >>, 1)
            IN IF pos # << >> THEN [use |-> TRUE, target |-> TPos(pos)] ELSE none
       [] u.type = "Warrior" ->
            LET t == bash_target(m, ui)
            IN IF t # NoUnit THEN [use |-> TRUE, target |-> TUnit(t)] ELSE none
       [] u.type = "Scout" ->
            IF \E e \in Indices(m.units) :
                 /\ m.units[e].player = Opponent(p) /\ m.units[e].is_alive
                 /\ m.vis[p][m.units[e].position] = 2
                 /\ distance(u.position, m.units[e].position) <= 3
            THEN [use |-> TRUE, target |-> TNone] ELSE none
       [] OTHER -> none

(* The attack phase: the target of least (hp, type priority), the first in *)
(* list order among equals (the sort is stable); NoUnit for none           *)
TypePriority(type) ==
  CASE type = "Base" -> 0 [] type = "Healer" -> 1 [] type = "Mage" -> 2
    [] type = "Archer" -> 3 [] type = "Cavalry" -> 4 [] type = "Warrior" -> 5
    [] type = "Scout" -> 6 [] OTHER -> 99

ai_attack_target(m, ui) ==
  LET targets == SelectSeq(get_alive_units(m.units, Opponent(m.units[ui].player)),
                           LAMBDA t : t \in get_possible_targets(m, ui))
      key == [t \in Indices(m.units) |-> m.units[t].hp * 100 + TypePriority(m.units[t].type)]
  IN FirstMin(targets, key, NoUnit, 1)

(* The move phase: target_enemy_obj as [kind, unit, pos]: a unit, the      *)
(* centre cell (a Scout with nothing else to go to) or none                *)
ai_move_goal(m, ui) ==
  LET u == m.units[ui]
      p == u.player
      seen == visible_enemies(m, p)
      dist == [e \in Indices(m.units) |-> distance(u.position, m.units[e].position)]
      nearest == FirstMin(seen, dist, NoUnit, 1)
      opp_base == base_unit(m.units, Opponent(p))
      unit(t) == [kind |-> "unit", unit |-> t, pos |-> m.units[t].position]
      none == [kind |-> "none", unit |-> NoUnit, pos |-> << >>]
  IN IF u.type = "Scout"
     THEN IF seen = << >> /\ m.units[opp_base].is_alive THEN unit(opp_base)
          ELSE IF seen # << >> THEN unit(nearest)
          ELSE [kind |-> "center", unit |-> NoUnit,
                pos |-> <<MAP_WIDTH \div 2, MAP_HEIGHT \div 2>>]
     ELSE IF seen # << >> THEN unit(nearest)
          ELSE IF m.units[opp_base].is_alive THEN unit(opp_base)
          ELSE none

(* "can_attack_after_move": from move_pos the goal is in range with a clear line *)
can_attack_from(m, ui, move_pos, goal) ==
  /\ goal.kind = "unit"
  /\ distance(move_pos, goal.pos) <= attack_range(m.units[ui])
  /\ ~ ( /\ attack_range(m.units[ui]) > 1
         /\ distance(move_pos, goal.pos) > 1
         /\ BlockPos(move_pos, goal.pos) # move_pos
         /\ is_valid_coordinate(BlockPos(move_pos, goal.pos))
         /\ map_layout(BlockPos(move_pos, goal.pos)) \in {"M", "F"} )

(* The cells best_move_pos can end on: the scan over the set possible_moves *)
(* keeps the first cell of least distance among the attack spots, else      *)
(* among all cells; the set's iteration order decides between equals, so    *)
(* every least cell is a possible outcome.  {} when the unit stays.         *)
ai_best_moves(m, ui, goal) ==
  LET cand == get_valid_moves(m, ui) \ {m.units[ui].position}
      spots == { c \in cand : can_attack_from(m, ui, c, goal) }
      pool == IF spots # {} THEN spots ELSE cand
  IN { c \in pool : \A d \in pool : distance(c, goal.pos) <= distance(d, goal.pos) }

(* ============================ the state ================================ *)
VARIABLES
  units,                 \* Player.units of both players, in creation order
  tiles,                 \* Tile.unit of every cell
  visibility_map,        \* Player.visibility_map of both players
  gold,                  \* Player.gold
  next_unit_id_counter,  \* Player.next_unit_id_counter
  current_player_index,  \* Game.current_player_index
  turn_number,           \* Game.turn_number
  selected_unit,         \* run's selected_unit (NoUnit for None)
  winner,                \* run's winner (-1 for None): the match is over
  ai,                    \* where perform_ai_turn stands
  last,                  \* the command applied last and what it met
  cmd_count,             \* per unit: commands applied since its owner's upkeep
  bashed,                \* units a Bash stunned, until their faction's next phase ends
  issued                 \* commands the human player has typed in this phase

match_vars == <<units, tiles, visibility_map, gold, next_unit_id_counter>>
vars == <<units, tiles, visibility_map, gold, next_unit_id_counter,
          current_player_index, turn_number, selected_unit, winner, ai, last, cmd_count,
          bashed, issued>>

(* The match value of the current state, and the writing back of one *)
M == [units |-> units, tiles |-> tiles, vis |-> visibility_map, gold |-> gold,
      next_unit_id_counter |-> next_unit_id_counter]

Commit(m) ==
  /\ units' = m.units
  /\ tiles' = m.tiles
  /\ visibility_map' = m.vis
  /\ gold' = m.gold
  /\ next_unit_id_counter' = m.next_unit_id_counter

(* ----------------------------- construction --------------------------- *)
(* Player.__init__ / _create_base: the base is put on its tile unchecked *)
create_base(m, p, pos) ==
  LET ui == Len(m.units) + 1
  IN [m EXCEPT !.units = Append(m.units, NewUnit(p, m.next_unit_id_counter[p], "Base", pos)),
               !.next_unit_id_counter[p] = m.next_unit_id_counter[p] + 1,
               !.tiles[pos] = ui]

EmptyMatch ==
  [units |-> << >>,
   tiles |-> [c \in Cells |-> NoUnit],
   vis |-> [p \in Players |-> [c \in Cells |-> 0]],
   gold |-> [p \in Players |-> INITIAL_GOLD],
   next_unit_id_counter |-> [p \in Players |-> 1]]

(* Game.__init__ with _setup_initial_units *)
NewGame ==
  LET m1 == create_base(create_base(EmptyMatch, 0, p1_base_pos), 1, p2_base_pos)
      m2 == add_unit(m1, 0, "Warrior", <<1, 2>>).m
      m3 == add_unit(m2, 0, "Scout", <<2, 1>>).m
      m4 == add_unit(m3, 1, "Warrior", <<MAP_WIDTH - 2, MAP_HEIGHT - 3>>).m
      m5 == add_unit(m4, 1, "Archer", <<MAP_WIDTH - 3, MAP_HEIGHT - 2>>).m
  IN UpdateBoth(m5)

AIIdle == [stage |-> "idle", queue |-> {}, unit |-> NoUnit, acted |-> FALSE,
           goal |-> NoUnit]

NoCounts == [moves |-> 0, attacks |-> 0, abilities |-> 0]

(* What `last` records of a command: who issued it ("human", "ai" or the   *)
(* "game" for an upkeep), the operation, the unit, the target (a unit      *)
(* and/or a cell), whether handle_action reported success, the hits it     *)
(* dealt, whether the match value changed, and what the command met when   *)
(* it was issued: the cells its faction saw (state 2), whether the target  *)
(* unit was alive and of the other faction, its distance, the attacker's   *)
(* effective range and whether the attacker was stunned.                   *)
NoCmd == [by |-> "none", op |-> "none", unit |-> NoUnit, tunit |-> NoUnit, tpos |-> << >>,
          ok |-> TRUE, hits |-> << >>, changed |-> FALSE, seen |-> {},
          talive |-> FALSE, tenemy |-> FALSE, tdist |-> 0, range |-> 0, stunned |-> FALSE]

(* run entered with the match value m: player 1 (index 0) is to command *)
Start(m) ==
  /\ units = m.units
  /\ tiles = m.tiles
  /\ visibility_map = m.vis
  /\ gold = m.gold
  /\ next_unit_id_counter = m.next_unit_id_counter
  /\ current_player_index = 0
  /\ turn_number = 1
  /\ selected_unit = NoUnit
  /\ winner = -1
  /\ ai = AIIdle
  /\ last = NoCmd
  /\ cmd_count = [i \in Indices(m.units) |-> NoCounts]
  /\ bashed = {}
  /\ issued = 0

Init == Start(NewGame)

(* A position late in a match, at the start of the human player's phase   *)
(* (its upkeep done, so its flags are clear; the AI's units keep the flags *)
(* of their last phase).  Player 1 has lost its Scout and a first Mage to  *)
(* attacks, and has built a second Mage and a Healer; its Warrior has      *)
(* killed a Warrior (10 xp) and been hit since.  Player 2 has built a      *)
(* second Warrior, which moved and attacked in its last phase; its Archer  *)
(* has moved to the far corner; its Base is down to base_hp (1 or 2) and   *)
(* carries the Poison of a Fireball of the first Mage.  Units killed by an *)
(* attack are off the grid's tiles, as handle_action leaves them.          *)
Dead(u) == [u EXCEPT !.hp = 0, !.is_alive = FALSE]
Acted(u, moved, attacked) == [u EXCEPT !.has_moved = moved, !.has_attacked = attacked]

LateUnits(base_hp) ==
  << [NewUnit(0, 1, "Base", p1_base_pos) EXCEPT !.hp = 40],
     [NewUnit(1, 1, "Base", p2_base_pos) EXCEPT !.hp = base_hp,
                                                !.status_effects = << <<"Poison", 2>> >>],
     [NewUnit(0, 2, "Warrior", <<2, 2>>) EXCEPT !.hp = 15, !.xp = 10],
     Dead(NewUnit(0, 3, "Scout", <<3, 3>>)),
     Dead(Acted(NewUnit(1, 2, "Warrior", <<2, 3>>), TRUE, TRUE)),
     Acted(NewUnit(1, 3, "Archer", <<MAP_WIDTH - 1, 0>>), TRUE, FALSE),
     Dead(NewUnit(0, 4, "Mage", <<3, 1>>)),
     NewUnit(0, 5, "Mage", <<1, 0>>),
     NewUnit(0, 6, "Healer", <<1, 2>>),
     Acted([NewUnit(1, 4, "Warrior", <<3, 2>>) EXCEPT !.hp = 6], TRUE, TRUE) >>

OnTile(us, i, c) == us[i].position = c /\ (us[i].is_alive \/ us[i].type = "Base")

LateMatch(base_hp) ==
  UpdateBoth(
    [units |-> LateUnits(base_hp),
     tiles |-> [c \in Cells |->
                  IF \E i \in Indices(LateUnits(base_hp)) : OnTile(LateUnits(base_hp), i, c)
                  THEN CHOOSE i \in Indices(LateUnits(base_hp)) : OnTile(LateUnits(base_hp), i, c)
                  ELSE NoUnit],
     vis |-> [p \in Players |-> [c \in Cells |-> 1]],
     gold |-> [p \in Players |-> IF p = 0 THEN 30 ELSE 5],
     next_unit_id_counter |-> [p \in Players |-> IF p = 0 THEN 7 ELSE 5]])

InitLate == \E base_hp \in {1, 2} : Start(LateMatch(base_hp))

(* ============================== actions ================================ *)
Running == winner = -1 /\ turn_number <= MaxTurn
HumanPhase == Running /\ current_player_index = 0
(* The human player types at most MaxCommands build and unit commands a phase *)
MayCommand == HumanPhase /\ issued < MaxCommands
AIPhase(stage) == Running /\ current_player_index = 1 /\ ai.stage = stage

(* Player.units_can_act *)
units_can_act(us, p) ==
  \E i \in Indices(us) :
     us[i].player = p /\ us[i].is_alive /\ us[i].type # "Base" /\ can_act(us[i])

Inc(n) == IF n < 2 THEN n + 1 ELSE n

(* cmd_count after a command of unit ui; new units start at zero *)
Counted(m, ui, action, ok) ==
  [i \in Indices(m.units) |->
     LET c == IF i \in DOMAIN cmd_count THEN cmd_count[i] ELSE NoCounts
     IN IF i # ui \/ ~ok THEN c
        ELSE CASE action = "move" -> [c EXCEPT !.moves = Inc(@)]
               [] action = "attack" -> [c EXCEPT !.attacks = Inc(@)]
               [] action = "ability" -> [c EXCEPT !.abilities = Inc(@)]
               [] OTHER -> c]

(* The cells player p sees (state 2) in the current state *)
Seen(p) == { c \in Cells : visibility_map[p][c] = 2 }

(* The units a successful Bash of the command stunned *)
Bashed(ui, action, data, ok) ==
  IF action = "ability" /\ ok /\ ability_name(units[ui]) = "Bash" THEN {data.unit} ELSE {}

(* A unit command through handle_action: the new match value, `last` and   *)
(* cmd_count.  data is a cell (move), a unit (attack) or a target (ability) *)
Applied(by, ui, action, data, r) ==
  LET tunit == IF action = "attack" THEN data
               ELSE IF action = "ability" /\ data.kind = "unit" THEN data.unit
               ELSE NoUnit
      tpos == IF action = "move" THEN data
              ELSE IF action = "ability" /\ data.kind = "pos" THEN data.pos
              ELSE << >>
  IN /\ Commit(r.m)
     /\ last' = [by |-> by, op |-> action, unit |-> ui, tunit |-> tunit, tpos |-> tpos,
                 ok |-> r.ok, hits |-> r.hits, changed |-> (r.m # M),
                 seen |-> Seen(units[ui].player),
                 talive |-> (tunit # NoUnit /\ units[tunit].is_alive),
                 tenemy |-> (tunit # NoUnit /\ units[tunit].player # units[ui].player),
                 tdist |-> IF tunit # NoUnit
                           THEN distance(units[ui].position, units[tunit].position) ELSE 0,
                 range |-> effective_attack_range(units[ui]),
                 stunned |-> HasStatus(units[ui], "Stun")]
     /\ cmd_count' = Counted(r.m, ui, action, r.ok)
     /\ bashed' = bashed \cup Bashed(ui, action, data, r.ok)

Command(by, ui, action, data, poisoned) ==
  Applied(by, ui, action, data, handle_action(M, ui, action, data, poisoned))

(* Game.next_turn: the other player becomes current and has its upkeep *)
Upkeep(new, r) ==
     /\ Commit(r.m)
     /\ current_player_index' = new
     /\ turn_number' = IF new = 0 THEN turn_number + 1 ELSE turn_number
     /\ selected_unit' = NoUnit
     /\ ai' = IF new = 1 THEN [AIIdle EXCEPT !.stage = "build"] ELSE AIIdle
     /\ last' = [NoCmd EXCEPT !.by = "game", !.op = "upkeep", !.hits = r.hits,
                              !.changed = TRUE]
     /\ cmd_count' = [i \in Indices(units) |-> NoCounts]
     /\ bashed' = { i \in bashed : units[i].player = new }
     /\ issued' = 0

(* A variant of next_turn that leaves the current player in place *)
NextTurn_same_player ==
  Upkeep(current_player_index, start_turn_updates(M, current_player_index))

NextTurn ==
  Upkeep((current_player_index + 1) % 2,
         start_turn_updates(M, (current_player_index + 1) % 2))

(* ------------------------- the human's commands ------------------------ *)
(* After handle_action run checks the winner, then drops a selection that  *)
(* can no longer act (at once after a success, at the next prompt after a  *)
(* failure).                                                               *)
AfterHumanCommand(ui) ==
  /\ winner' = check_win_condition(units')
  /\ selected_unit' = IF can_act(units'[ui]) THEN ui ELSE NoUnit
  /\ issued' = issued + 1
  /\ UNCHANGED <<current_player_index, turn_number, ai>>

(* The inputs the human player is given to choose from: the cells of     *)
(* "move", the types of "build" and the cells of a Fireball (digits only, *)
(* so never negative, and possibly off the grid).                         *)
MoveCells == { <<3, 1>>, <<2, 2>>, <<0, 1>> }
BuildTypes == {"Mage"}
FireballCells == { <<3, 1>>, <<4, 0>>, <<0, MAP_HEIGHT>> }

(* The cells of MoveCells get_unit_action accepts for the selected unit *)
MoveInputs(ui) ==
  IF ui = NoUnit \/ units[ui].has_moved \/ HasStatus(units[ui], "Stun") THEN {}
  ELSE LET valid_moves == get_valid_moves(M, ui)
       IN { pos \in MoveCells : pos \in valid_moves /\ ~Occupied(M, pos) }

(* "select [id]" *)
Select(ui) ==
  /\ HumanPhase /\ selected_unit = NoUnit
  /\ units_can_act(units, 0)
  /\ units[ui].player = 0 /\ units[ui].is_alive /\ units[ui].type # "Base"
  /\ can_act(units[ui])
  /\ selected_unit' = ui
  /\ UNCHANGED <<match_vars, current_player_index, turn_number, winner, ai, last, cmd_count, bashed, issued>>

(* "cancel" *)
Cancel ==
  /\ HumanPhase /\ selected_unit # NoUnit
  /\ selected_unit' = NoUnit
  /\ UNCHANGED <<match_vars, current_player_index, turn_number, winner, ai, last, cmd_count, bashed, issued>>

(* A build command whose build_unit returned r *)
Built(by, r) ==
  /\ Commit(r.m)
  /\ last' = [NoCmd EXCEPT !.by = by, !.op = "build", !.ok = r.ok, !.changed = (r.m # M)]
  /\ cmd_count' = Counted(r.m, NoUnit, "build", r.ok)
  /\ UNCHANGED bashed

(* "build [type]" *)
Build(type) ==
  /\ MayCommand /\ selected_unit = NoUnit
  /\ units_can_act(units, 0)
  /\ Built("human", build_unit(M, 0, type))
  /\ issued' = issued + 1
  /\ UNCHANGED <<current_player_index, turn_number, selected_unit, winner, ai>>

(* "move [x] [y]" *)
Move(pos) ==
  /\ MayCommand /\ selected_unit # NoUnit
  /\ pos \in MoveInputs(selected_unit)
  /\ Command("human", selected_unit, "move", pos, {})
  /\ AfterHumanCommand(selected_unit)

(* "attack [target_id]" *)
Attack(ti) ==
  /\ MayCommand /\ selected_unit # NoUnit
  /\ ~units[selected_unit].has_attacked /\ ~HasStatus(units[selected_unit], "Stun")
  /\ units[ti].player = 1 /\ units[ti].is_alive
  /\ visibility_map[0][units[ti].position] = 2
  /\ can_attack(M, selected_unit, ti)
  /\ Command("human", selected_unit, "attack", ti, {})
  /\ AfterHumanCommand(selected_unit)

(* The targets get_unit_action passes on for the ability of unit ui *)
AbilityInputs(ui) ==
  IF ui = NoUnit THEN {} ELSE
  LET u == units[ui]
  IN CASE ability_name(u) = "Fireball" ->
            { TPos(pos) : pos \in { c \in FireballCells :
                                      distance(u.position, c) <= attack_range(u) } }
       [] ability_name(u) \in {"Heal", "Bash"} ->
            { TUnit(t) : t \in { i \in Indices(units) :
                 /\ units[i].is_alive
                 /\ units[i].player # 0 => visibility_map[0][units[i].position] = 2
                 /\ \/ distance(u.position, units[i].position) <= attack_range(u)
                    \/ distance(u.position, units[i].position)
                         <= (IF ability_name(u) = "Bash" THEN 1 ELSE attack_range(u)) } }
       [] OTHER -> {TNone}

(* The units whose poison roll matters for an ability at target *)
PoisonRolls(ui, target) ==
  IF ability_name(units[ui]) = "Fireball" /\ target.kind = "pos"
  THEN SUBSET { i \in Indices(units) :
                  \E k \in 1 .. 5 : get_unit_at(M, BlastCells(target.pos)[k]) = i }
  ELSE {{}}

(* "ability [target]" *)
Ability(target, poisoned) ==
  /\ MayCommand /\ selected_unit # NoUnit
  /\ can_use_ability(units[selected_unit]) /\ ~units[selected_unit].has_used_ability
  /\ target \in AbilityInputs(selected_unit)
  /\ poisoned \in PoisonRolls(selected_unit, target)
  /\ Command("human", selected_unit, "ability", target, poisoned)
  /\ AfterHumanCommand(selected_unit)

(* "wait" for the selected unit: get_unit_action sets the flags, then handle_action *)
WaitUnit ==
  /\ MayCommand /\ selected_unit # NoUnit
  /\ Command("human", selected_unit, "wait", << >>, {})
  /\ AfterHumanCommand(selected_unit)

(* The end of the human's acting phase: the global "wait", or no unit left *)
(* that can act                                                            *)
EndTurn ==
  /\ HumanPhase /\ selected_unit = NoUnit
  /\ NextTurn
  /\ UNCHANGED winner

(* --------------------- the AI's turn, step by step --------------------- *)
(* ai = [stage, queue, unit, acted, goal]: the loop of perform_ai_turn      *)
(* over the shuffled units, the unit in hand, acted_this_cycle and the unit *)
(* target_enemy_obj of its move (NoUnit when it is none or the centre       *)
(* cell).  random.shuffle makes every order possible: queue is the set of   *)
(* the units still to come and the loop head takes any of them.  Stages:    *)
(* build, pick (the loop head), ability, attack, move, after_move, end (the *)
(* end of the loop body), done.                                             *)
NoAICommand == UNCHANGED <<match_vars, last, cmd_count, bashed>>
AIFrame == UNCHANGED <<current_player_index, turn_number, selected_unit, issued>>

(* "continue": on to the next unit of the loop *)
Continue == ai' = [ai EXCEPT !.stage = "pick", !.unit = NoUnit, !.acted = FALSE, !.goal = NoUnit]

(* "winner = self.check_win_condition(); if winner: return True", else go on *)
ReturnIfWon(go_on) ==
  /\ winner' = check_win_condition(units')
  /\ IF winner' # -1 THEN ai' = [ai EXCEPT !.stage = "done"] ELSE go_on

(* Step 1, building, and the shuffle of the live units (the Base is skipped *)
(* by the loop, so it is left out of the queue)                             *)
AIBuild ==
  /\ AIPhase("build")
  /\ IF ai_unit_to_build(M, 1) # ""
     THEN Built("ai", build_unit(M, 1, ai_unit_to_build(M, 1)))
     ELSE NoAICommand
  /\ ai' = [ai EXCEPT !.stage = "pick",
                       !.queue = { i \in Indices(units') :
                                     /\ units'[i].player = 1
                                     /\ units'[i].is_alive
                                     /\ units'[i].type # "Base" }]
  /\ AIFrame /\ UNCHANGED winner

(* The loop head: the next unit, skipped when it cannot act *)
AIPick ==
  /\ AIPhase("pick")
  /\ IF ai.queue = {} THEN ai' = [ai EXCEPT !.stage = "done"]
     ELSE \E unit \in ai.queue :
            IF ~can_act(units[unit]) THEN ai' = [ai EXCEPT !.queue = ai.queue \ {unit}]
            ELSE ai' = [ai EXCEPT !.stage = "ability", !.queue = ai.queue \ {unit},
                                  !.unit = unit, !.acted = FALSE, !.goal = NoUnit]
  /\ NoAICommand /\ AIFrame /\ UNCHANGED winner

(* The ability phase of the unit in hand *)
AIAbility ==
  /\ AIPhase("ability")
  /\ LET ui == ai.unit
         d == ai_ability(M, ui)
     IN IF ~units[ui].has_used_ability /\ can_use_ability(units[ui]) /\ d.use
        THEN \E poisoned \in PoisonRolls(ui, d.target) :
               /\ Command("ai", ui, "ability", d.target, poisoned)
               /\ IF last'.ok /\ ~can_act(units'[ui]) THEN Continue
                  ELSE ai' = [ai EXCEPT !.stage = "attack", !.acted = last'.ok]
        ELSE /\ NoAICommand
             /\ ai' = [ai EXCEPT !.stage = "attack"]
  /\ AIFrame /\ UNCHANGED winner

(* The attack phase *)
AIAttack ==
  /\ AIPhase("attack")
  /\ LET ui == ai.unit
         target == ai_attack_target(M, ui)
     IN IF ~units[ui].has_attacked /\ target # NoUnit
        THEN /\ Command("ai", ui, "attack", target, {})
             /\ ReturnIfWon(IF ~can_act(units'[ui]) THEN Continue
                            ELSE ai' = [ai EXCEPT !.stage = "move", !.acted = TRUE])
        ELSE /\ NoAICommand
             /\ ai' = [ai EXCEPT !.stage = "move"]
             /\ UNCHANGED winner
  /\ AIFrame

(* The move phase: the move itself, or the wait of a unit that stays *)
AIMove ==
  /\ AIPhase("move")
  /\ LET ui == ai.unit
         goal == ai_move_goal(M, ui)
         best == IF goal.kind = "none" THEN {} ELSE ai_best_moves(M, ui, goal)
     IN IF units[ui].has_moved
        THEN NoAICommand /\ ai' = [ai EXCEPT !.stage = "end"]
        ELSE IF best # {}
        THEN \E best_move_pos \in best :
               /\ Command("ai", ui, "move", best_move_pos, {})
               /\ ai' = [ai EXCEPT !.stage = "after_move", !.acted = TRUE, !.goal = goal.unit]
        ELSE IF ~ai.acted
        THEN /\ Command("ai", ui, "wait", << >>, {})
             /\ ai' = [ai EXCEPT !.stage = "end", !.acted = TRUE]
        ELSE NoAICommand /\ ai' = [ai EXCEPT !.stage = "end"]
  /\ AIFrame /\ UNCHANGED winner

(* "AI Attack after Move" *)
AIAfterMove ==
  /\ AIPhase("after_move")
  /\ LET ui == ai.unit
         go_on == IF ~can_act(units'[ui]) THEN Continue ELSE ai' = [ai EXCEPT !.stage = "end"]
     IN IF /\ can_act(units[ui]) /\ ~units[ui].has_attacked /\ ai.goal # NoUnit
           /\ visibility_map[1][units[ai.goal].position] = 2
           /\ can_attack(M, ui, ai.goal)
        THEN /\ Command("ai", ui, "attack", ai.goal, {})
             /\ ReturnIfWon(go_on)
        ELSE /\ NoAICommand
             /\ go_on
             /\ UNCHANGED winner
  /\ AIFrame

(* The end of the loop body: the wait of a unit that did nothing, and the  *)
(* win check after each unit                                               *)
AIEndUnit ==
  /\ AIPhase("end")
  /\ LET ui == ai.unit
     IN IF ~can_act(units[ui])
        THEN NoAICommand /\ Continue /\ UNCHANGED winner
        ELSE /\ IF ~ai.acted THEN Command("ai", ui, "wait", << >>, {}) ELSE NoAICommand
             /\ ReturnIfWon(Continue)
  /\ AIFrame

(* run, after perform_ai_turn has returned: the winner ends the match,     *)
(* otherwise the turn passes on                                            *)
AIEndTurn ==
  /\ AIPhase("done")
  /\ IF check_win_condition(units) # -1
     THEN /\ winner' = check_win_condition(units)
          /\ UNCHANGED <<match_vars, current_player_index, turn_number, selected_unit,
                         ai, last, cmd_count, bashed, issued>>
     ELSE NextTurn /\ UNCHANGED winner

Next ==
  \/ \E ui \in Indices(units) : Select(ui)
  \/ Cancel
  \/ \E type \in BuildTypes : Build(type)
  \/ \E pos \in MoveInputs(selected_unit) : Move(pos)
  \/ \E ti \in Indices(units) : Attack(ti)
  \/ \E target \in AbilityInputs(selected_unit) :
       \E poisoned \in PoisonRolls(selected_unit, target) : Ability(target, poisoned)
  \/ WaitUnit
  \/ EndTurn
  \/ AIBuild
  \/ AIPick
  \/ AIAbility
  \/ AIAttack
  \/ AIMove
  \/ AIAfterMove
  \/ AIEndUnit
  \/ AIEndTurn

Spec == Init /\ [][Next]_vars

(* The same match entered at the late position *)
SpecLate == InitLate /\ [][Next]_vars

(* ---------------- calls of the search functions ---------------------- *)
(* get_valid_moves takes the map as an argument; it is also called on maps *)
(* of its own.  `last` then holds one call: its arguments and, once it has *)
(* returned, its result.  The match is an empty one and is not touched.    *)
(* build_unit is called on matches m of its own in the same way.           *)
CallingOn(m, call) ==
  /\ units = m.units
  /\ tiles = m.tiles
  /\ visibility_map = m.vis
  /\ gold = m.gold
  /\ next_unit_id_counter = m.next_unit_id_counter
  /\ current_player_index = 0
  /\ turn_number = 1
  /\ selected_unit = NoUnit
  /\ winner = -1
  /\ ai = AIIdle
  /\ last = call
  /\ cmd_count = << >>
  /\ bashed = {}
  /\ issued = 0

Calling(call) == CallingOn(EmptyMatch, call)

Returned(call) ==
  /\ last' = call
  /\ UNCHANGED <<match_vars, current_player_index, turn_number, selected_unit, winner, ai,
                 cmd_count, bashed, issued>>

(* A square map of side n: all Plains, or with a Forest column and a       *)
(* Mountain row; occ are the cells whose tile holds a live unit.           *)
SquareMap(n, rough, occ) ==
  [width |-> n, height |-> n,
   terrain |-> [c \in (0 .. n - 1) \X (0 .. n - 1) |->
                  IF ~rough THEN "P"
                  ELSE IF c[1] = 2 THEN "F" ELSE IF c[2] = 1 THEN "M" ELSE "P"],
   unit |-> [c \in (0 .. n - 1) \X (0 .. n - 1) |-> c \in occ]]

(* The sets of at most k cells of S *)
RECURSIVE AtMost(_, _)
AtMost(S, k) ==
  IF k = 0 THEN { {} }
  ELSE AtMost(S, k - 1) \cup { T \cup {c} : T \in AtMost(S, k - 1), c \in S }

(* The unit that asks for its moves: a fresh unit, possibly with a status *)
MovingUnit(type, pos, effect) ==
  IF effect = "None" THEN NewUnit(0, 1, type, pos)
  ELSE apply_status(NewUnit(0, 1, type, pos), effect, 1)

MoveCalls ==
  { [op |-> "get_valid_moves", returned |-> FALSE, moves |-> {},
     unit |-> MovingUnit(type, pos, effect),
     game_map |-> SquareMap(ProbeSide, rough, others \cup {pos})] :
      type \in {"Warrior", "Cavalry", "Scout"},
      pos \in {<<3, 3>>, <<0, 0>>},
      effect \in {"None", "Stun", "Charge"},
      rough \in BOOLEAN,
      others \in AtMost({ c \in (0 .. ProbeSide - 1) \X (0 .. ProbeSide - 1) :
                            distance(c, <<3, 3>>) \in 1 .. 3 }, MaxOthers) }

InitMoves == \E call \in MoveCalls : Calling(call)

GetValidMoves ==
  /\ last.op = "get_valid_moves"
  /\ ~last.returned
  /\ Returned([last EXCEPT !.returned = TRUE,
                           !.moves = ValidMoves(last.game_map, last.unit)])

NextMoves == GetValidMoves

SpecMoves == InitMoves /\ [][NextMoves]_vars

(* ---- calls of a_star_pathfinding ---- *)
(* The cost functions a unit may bring: the terrain table's move_cost, one *)
(* that cannot enter Mountains, one that finds them heavy.                 *)
PathCosts ==
  { [k \in DOMAIN TERRAIN_TYPES |-> IF k = "M" THEN m ELSE TERRAIN_TYPES[k].move_cost] :
      m \in {TERRAIN_TYPES["M"].move_cost, NoCost, 2 * TERRAIN_TYPES["M"].move_cost} }

(* A square map of side n with Mountains on rough and Plains elsewhere *)
PathMap(n, rough, occ) ==
  [width |-> n, height |-> n,
   terrain |-> [c \in (0 .. n - 1) \X (0 .. n - 1) |-> IF c \in rough THEN "M" ELSE "P"],
   unit |-> [c \in (0 .. n - 1) \X (0 .. n - 1) |-> c \in occ]]

(* start and goal: corner to corner, along an edge, and on the spot *)
PathEnds ==
  { <<(<<0, 0>>), (<<PathSide - 1, PathSide - 1>>)>>,
    <<(<<0, 0>>), (<<PathSide - 1, 0>>)>>,
    <<(<<1, 1>>), (<<1, 1>>)>> }

(* The mover stands on the start cell; at most one other live unit *)
PathCalls ==
  { [op |-> "a_star_pathfinding", returned |-> FALSE, path |-> NoPath,
     game_map |-> PathMap(PathSide, rough, others \cup {ends[1]}),
     start_pos |-> ends[1], end_pos |-> ends[2], unit_move_costs |-> costs] :
      ends \in PathEnds,
      costs \in PathCosts,
      rough \in AtMost((0 .. PathSide - 1) \X (0 .. PathSide - 1), MaxRough),
      others \in AtMost((0 .. PathSide - 1) \X (0 .. PathSide - 1), 1) }

InitPath == \E call \in PathCalls : Calling(call)

FindPath ==
  /\ last.op = "a_star_pathfinding"
  /\ ~last.returned
  /\ Returned([last EXCEPT !.returned = TRUE,
                           !.path = a_star_pathfinding(last.game_map, last.start_pos,
                                                       last.end_pos, last.unit_move_costs)])

NextPath == FindPath

SpecPath == InitPath /\ [][NextPath]_vars

(* ---- calls of Unit.take_damage ---- *)
(* A unit that has reached level by level_up and holds xp since *)
RECURSIVE Levelled(_, _, _)
Levelled(u, level, xp) ==
  IF u.level < level THEN Levelled(level_up(u), level, xp) ELSE [u EXCEPT !.xp = xp]

(* The xp a unit of a level may hold: the least, and 8 short of the next   *)
(* level; a unit of the last level holds 0                                 *)
XpAt(level) ==
  IF level >= MAX_LEVEL THEN {0}
  ELSE {XP_LEVELS[level].xp, XP_LEVELS[level + 1].xp - 8}

(* Unit 1, of player 1, stands next to unit 2, of player 2; either may be  *)
(* about to die (hp 1)                                                     *)
HitUnits(type, level, xp, weak, ttype, tlevel, txp, tweak) ==
  << [Levelled(NewUnit(0, 1, type, <<1, 2>>), level, xp) EXCEPT
        !.hp = IF weak THEN 1 ELSE @],
     [Levelled(NewUnit(1, 1, ttype, <<2, 2>>), tlevel, txp) EXCEPT
        !.hp = IF tweak THEN 1 ELSE @] >>

(* take_damage called on unit 2 by unit 1's attack, or by a poison tick    *)
(* (no attacker)                                                           *)
HitCall(us, attacker) ==
  [op |-> "take_damage", returned |-> FALSE, hits |-> << >>, before |-> us,
   target |-> 2, attacker |-> attacker,
   damage |-> IF attacker = NoUnit THEN POISON_DAMAGE ELSE us[attacker].attack]

InitHit ==
  \E type \in {"Warrior", "Scout"}, ttype \in {"Warrior", "Mage", "Base"},
     level \in 1 .. MAX_LEVEL, tlevel \in {1, MAX_LEVEL - 1, MAX_LEVEL},
     weak \in BOOLEAN, tweak \in BOOLEAN, attacker \in {NoUnit, 1} :
    \E xp \in XpAt(level), txp \in XpAt(tlevel) :
       CallingOn([EmptyMatch EXCEPT
                    !.units = HitUnits(type, level, xp, weak, ttype, tlevel, txp, tweak)],
                 HitCall(HitUnits(type, level, xp, weak, ttype, tlevel, txp, tweak),
                         attacker))

(* take_damage has returned r *)
Hit(r) ==
  /\ units' = r.us
  /\ last' = [last EXCEPT !.returned = TRUE, !.hits = r.hits]
  /\ UNCHANGED <<tiles, visibility_map, gold, next_unit_id_counter, current_player_index,
                 turn_number, selected_unit, winner, ai, cmd_count, bashed, issued>>

TakeDamage ==
  /\ last.op = "take_damage"
  /\ ~last.returned
  /\ Hit(take_damage(units, last.target, last.damage, last.attacker))

NextHit == TakeDamage

SpecHit == InitHit /\ [][NextHit]_vars

(* ---- calls of Unit.use_ability ---- *)
(* A new game in which player 1 has built one more unit, now at pos: at    *)
(* (3, 1) between its damaged Scout and player 2's Warrior, or at (5, 1)   *)
(* behind that Warrior.  The unit has hp left, may have moved or attacked  *)
(* in this phase (not both: it can still act) and its ability may be       *)
(* cooling down.                                                           *)
AbilityMatch(type, pos, hp, moved, attacked, cooldown) ==
  [add_unit([NewGame EXCEPT !.units[4] = [@ EXCEPT !.hp = 8],
                            !.tiles = [c \in Cells |-> NewGame.tiles[c]]],
            0, type, pos).m EXCEPT
     !.units[Len(NewGame.units) + 1] =
        [@ EXCEPT !.hp = hp, !.has_moved = moved, !.has_attacked = attacked,
                  !.ability_cooldown_timer = cooldown]]

(* The targets handed to use_ability: none, the enemy Warrior, the         *)
(* friendly Scout, the Warrior's cell, a cell out of range and the Scout's *)
(* cell                                                                    *)
AbilityTargets ==
  <<TNone, TUnit(5), TUnit(4), TPos(<<4, 1>>), TPos(<<0, 3>>), TPos(<<2, 1>>)>>

AbilityCall(ui, target, m) ==
  [op |-> "use_ability", returned |-> FALSE, ok |-> FALSE, hits |-> << >>,
   unit |-> ui, target |-> target, before |-> m.units[ui]]

InitAbility ==
  \E type \in UnitTypes \ {"Base"}, pos \in {<<3, 1>>, <<5, 1>>}, weak \in BOOLEAN,
     moved \in BOOLEAN, attacked \in BOOLEAN, cooldown \in {0, 2},
     k \in 1 .. Len(AbilityTargets) :
     /\ ~(moved /\ attacked)
     /\ CallingOn(AbilityMatch(type, pos, IF weak THEN 5 ELSE UNIT_STATS[type].hp,
                               moved, attacked, cooldown),
                  AbilityCall(Len(NewGame.units) + 1, k,
                              AbilityMatch(type, pos,
                                           IF weak THEN 5 ELSE UNIT_STATS[type].hp,
                                           moved, attacked, cooldown)))

(* use_ability has returned r *)
AbilityReturned(r) ==
  /\ Commit(r.m)
  /\ last' = [last EXCEPT !.returned = TRUE, !.ok = r.ok, !.hits = r.hits]
  /\ UNCHANGED <<current_player_index, turn_number, selected_unit, winner, ai,
                 cmd_count, bashed, issued>>

UseAbility ==
  /\ last.op = "use_ability"
  /\ ~last.returned
  /\ \E poisoned \in PoisonRolls(last.unit, AbilityTargets[last.target]) :
       AbilityReturned(use_ability(M, last.unit, AbilityTargets[last.target],
                                   poisoned))

NextAbility == UseAbility

SpecAbility == InitAbility /\ [][NextAbility]_vars

(* ---- an Archer's Long Shot over several turns ---- *)
(* A late match: player 1 has its Base, a Scout at (2, 2) that keeps the   *)
(* enemy Base in sight and one more unit of the given type at pos; player  *)
(* 2 has only its Base and gold2 gold.  Units: 1, 2 the Bases, 3 the       *)
(* Scout, 4 the other unit.                                                *)
LateDuel(type, pos, gold2) ==
  UpdateBoth([add_unit(add_unit(create_base(create_base(EmptyMatch, 0, p1_base_pos),
                                            1, p2_base_pos),
                                0, "Scout", <<2, 2>>).m,
                       0, type, pos).m
               EXCEPT !.gold[1] = gold2])

(* Cells at distance 4, 5 and 6 of the enemy Base *)
ArcherCells == { <<0, 0>>, <<0, 1>>, <<0, 2>>, <<0, 3>>, <<1, 0>>, <<1, 3>> }

(* `last` watches the Archer: the attacks beyond its normal range since    *)
(* the last activation (shots), whether it has attacked or its turn has    *)
(* ended since then (spent), and whether an attack beyond the normal range *)
(* came after that (late).                                                 *)
LongShotWatch == [op |-> "long_shot", active |-> FALSE, shots |-> 0,
                  spent |-> FALSE, late |-> FALSE]

InitLongShot ==
  \E pos \in ArcherCells, gold2 \in {0, 10, 35} :
     CallingOn(LateDuel("Archer", pos, gold2), LongShotWatch)

LongShotFrame ==
  UNCHANGED <<current_player_index, selected_unit, ai, cmd_count, bashed, issued>>

(* "ability" for the Archer (get_unit_action, then handle_action) *)
LongShot ==
  /\ last.op = "long_shot" /\ winner = -1
  /\ can_use_ability(units[4]) /\ ~units[4].has_used_ability
  /\ Commit(handle_action(M, 4, "ability", TNone, {}).m)
  /\ last' = IF handle_action(M, 4, "ability", TNone, {}).ok
             THEN [last EXCEPT !.active = TRUE, !.shots = 0, !.spent = FALSE]
             ELSE last
  /\ UNCHANGED <<turn_number, winner>>
  /\ LongShotFrame

(* "attack" of the Archer on the enemy Base *)
Shoot ==
  /\ last.op = "long_shot" /\ winner = -1
  /\ ~units[4].has_attacked /\ ~HasStatus(units[4], "Stun")
  /\ units[2].is_alive
  /\ visibility_map[0][units[2].position] = 2
  /\ can_attack(M, 4, 2)
  /\ Commit(handle_action(M, 4, "attack", 2, {}).m)
  /\ last' = IF distance(units[4].position, units[2].position) > attack_range(units[4])
             THEN [last EXCEPT !.shots = @ + 1, !.late = @ \/ last.spent, !.spent = TRUE]
             ELSE [last EXCEPT !.spent = last.active]
  /\ winner' = check_win_condition(units')
  /\ UNCHANGED turn_number
  /\ LongShotFrame

(* The global "wait": next_turn, the AI's phase in which it can neither    *)
(* build nor command a unit, and next_turn again                           *)
WaitOutTurn ==
  /\ last.op \in {"long_shot", "charge"} /\ winner = -1
  /\ turn_number < MaxUpkeeps
  /\ ai_unit_to_build(start_turn_updates(M, 1).m, 1) = ""
  /\ ~units_can_act(start_turn_updates(M, 1).m.units, 1)
  /\ Commit(start_turn_updates(start_turn_updates(M, 1).m, 0).m)
  /\ last' = [last EXCEPT !.spent = last.active]
  /\ turn_number' = turn_number + 1
  /\ UNCHANGED winner
  /\ LongShotFrame

NextLongShot ==
  \/ LongShot
  \/ Shoot
  \/ WaitOutTurn

SpecLongShot == InitLongShot /\ [][NextLongShot]_vars

(* ---- a Cavalry's Charge over several turns ---- *)
(* `last` watches the Cavalry: whether Charge was activated (active),      *)
(* whether its turn has ended since (spent), and whether its last move     *)
(* went further than its move range (far).                                 *)
ChargeWatch == [op |-> "charge", active |-> FALSE, spent |-> FALSE, far |-> FALSE]

InitCharge ==
  \E pos \in Cells \ {p1_base_pos, p2_base_pos, <<2, 2>>}, gold2 \in {0, 10} :
     CallingOn(LateDuel("Cavalry", pos, gold2), ChargeWatch)

(* "ability" for the Cavalry (get_unit_action, then handle_action) *)
Charge ==
  /\ last.op = "charge" /\ winner = -1
  /\ can_use_ability(units[4]) /\ ~units[4].has_used_ability
  /\ Commit(handle_action(M, 4, "ability", TNone, {}).m)
  /\ last' = IF handle_action(M, 4, "ability", TNone, {}).ok
             THEN [last EXCEPT !.active = TRUE, !.spent = FALSE]
             ELSE last
  /\ UNCHANGED <<turn_number, winner>>
  /\ LongShotFrame

(* "move x y" for the Cavalry: get_unit_action asks get_valid_moves *)
ChargeMove(pos) ==
  /\ last.op = "charge" /\ winner = -1
  /\ ~units[4].has_moved /\ ~HasStatus(units[4], "Stun")
  /\ pos \in get_valid_moves(M, 4)
  /\ ~Occupied(M, pos)
  /\ Commit(handle_action(M, 4, "move", pos, {}).m)
  /\ last' = [last EXCEPT !.far = distance(units[4].position, pos)
                                    > UNIT_STATS[units[4].type].move_range]
  /\ UNCHANGED <<turn_number, winner>>
  /\ LongShotFrame

NextCharge ==
  \/ Charge
  \/ \E pos \in Cells : ChargeMove(pos)
  \/ WaitOutTurn

SpecCharge == InitCharge /\ [][NextCharge]_vars

(* ---- calls of Player.update_visibility ---- *)
(* What a player's map held before the call: cell by cell one of the three *)
(* states, in a pattern shifted by shift                                   *)
EarlierMap(shift) == [c \in Cells |-> (c[1] + c[2] + shift) % 3]

(* A match with one unit of player p at pos *)
VisionMatch(type, pos, p, shift) ==
  [EmptyMatch EXCEPT !.units = << NewUnit(p, 1, type, pos) >>,
                     !.tiles = [c \in Cells |-> IF c = pos THEN 1 ELSE NoUnit],
                     !.vis = [q \in Players |-> EarlierMap(shift)]]

InitVision ==
  \E type \in UnitTypes, pos \in Cells, p \in Players, shift \in 0 .. 2 :
     CallingOn(VisionMatch(type, pos, p, shift),
               [op |-> "update_visibility", returned |-> FALSE, player |-> p,
                shift |-> shift])

UpdateVisibility ==
  /\ last.op = "update_visibility"
  /\ ~last.returned
  /\ Commit(update_visibility(M, last.player))
  /\ last' = [last EXCEPT !.returned = TRUE]
  /\ UNCHANGED <<current_player_index, turn_number, selected_unit, winner, ai,
                 cmd_count, bashed, issued>>

NextVision == UpdateVisibility

SpecVision == InitVision /\ [][NextVision]_vars

(* ---- calls of Unit.gain_xp ---- *)
(* The xp a unit of a level may hold: from the level's threshold up to the *)
(* next one; a unit of the last level holds 0                              *)
XpOf(level) ==
  IF level >= MAX_LEVEL THEN {0}
  ELSE XP_LEVELS[level].xp .. XP_LEVELS[level + 1].xp - 1

(* The amounts granted: the xp values of the unit types and some more *)
XpGrants == { UNIT_STATS[t].xp_value : t \in UnitTypes } \cup {0, 1, 30, 80, 100}

InitXp ==
  \E type \in {"Warrior", "Healer"}, level \in 1 .. MAX_LEVEL, weak \in BOOLEAN,
     amount \in XpGrants :
    \E xp \in XpOf(level) :
       CallingOn([EmptyMatch EXCEPT
                    !.units = << [Levelled(NewUnit(0, 1, type, <<1, 2>>), level, xp)
                                    EXCEPT !.hp = IF weak THEN 1 ELSE @] >>],
                 [op |-> "gain_xp", returned |-> FALSE, amount |-> amount,
                  before |-> [Levelled(NewUnit(0, 1, type, <<1, 2>>), level, xp)
                                EXCEPT !.hp = IF weak THEN 1 ELSE @]])

GainXp ==
  /\ last.op = "gain_xp"
  /\ ~last.returned
  /\ units' = << gain_xp(units[1], last.amount) >>
  /\ last' = [last EXCEPT !.returned = TRUE]
  /\ UNCHANGED <<tiles, visibility_map, gold, next_unit_id_counter, current_player_index,
                 turn_number, selected_unit, winner, ai, cmd_count, bashed, issued>>

NextXp == GainXp

SpecXp == InitXp /\ [][NextXp]_vars

(* ---- a unit's ability cooldown over several turns ---- *)
(* The late match of LateDuel with unit 4 next to the enemy Base, possibly *)
(* stunned for two turns and possibly with its ability cooling down.       *)
CooldownMatch(type, stunned, cooldown) ==
  [LateDuel(type, <<3, 2>>, 0) EXCEPT
     !.units[4] = [(IF stunned THEN apply_status(@, "Stun", 2) ELSE @) EXCEPT
                     !.ability_cooldown_timer = cooldown]]

(* `last` watches unit 4: the result of the last ability command (tried,   *)
(* ok), the upkeeps of its player since its last successful use (since, -1 *)
(* before the first) and the number of successful uses, up to 2.           *)
CooldownWatch == [op |-> "cooldown", tried |-> FALSE, ok |-> FALSE, since |-> -1,
                  uses |-> 0]

(* The targets of the ability commands: none, the enemy Base, the Scout *)
CooldownTargets == <<TNone, TUnit(2), TUnit(3)>>

InitCooldown ==
  \E type \in {"Scout", "Archer", "Warrior", "Healer"}, stunned \in BOOLEAN,
     cooldown \in {0, 2} :
     CallingOn(CooldownMatch(type, stunned, cooldown), CooldownWatch)

(* An "ability" command for unit 4 in its player's phase, through          *)
(* handle_action, whether or not the ability is ready                      *)
AbilityCommand(k) ==
  /\ last.op = "cooldown" /\ current_player_index = 0
  /\ Commit(handle_action(M, 4, "ability", CooldownTargets[k], {}).m)
  /\ last' = IF handle_action(M, 4, "ability", CooldownTargets[k], {}).ok
             THEN [last EXCEPT !.tried = TRUE, !.ok = TRUE, !.since = 0,
                               !.uses = Inc(@)]
             ELSE [last EXCEPT !.tried = TRUE, !.ok = FALSE]
  /\ UNCHANGED <<current_player_index, turn_number, selected_unit, winner, ai,
                 cmd_count, bashed, issued>>

(* Game.next_turn at the end of a phase *)
EndPhase ==
  /\ last.op = "cooldown"
  /\ turn_number <= MaxUpkeeps
  /\ Commit(start_turn_updates(M, (current_player_index + 1) % 2).m)
  /\ current_player_index' = (current_player_index + 1) % 2
  /\ turn_number' = IF current_player_index = 1 THEN turn_number + 1 ELSE turn_number
  /\ last' = [last EXCEPT !.tried = FALSE,
                          !.since = IF current_player_index = 1 /\ @ >= 0 THEN @ + 1 ELSE @]
  /\ UNCHANGED <<selected_unit, winner, ai, cmd_count, bashed, issued>>

NextCooldown ==
  \/ \E k \in 1 .. Len(CooldownTargets) : AbilityCommand(k)
  \/ EndPhase

SpecCooldown == InitCooldown /\ [][NextCooldown]_vars

(* ---- the build step of perform_ai_turn ---- *)
(* Matches in which the AI's turn is about to start its build step: next   *)
(* to the two Bases, the AI owns the units of `own` (on the top row, away  *)
(* from its Base) and g gold, and the other player owns `theirs` Warriors. *)
RECURSIVE Muster(_, _, _, _, _)
Muster(m, p, types, cells, i) ==
  IF i > Len(types) THEN m
  ELSE Muster(add_unit(m, p, types[i], cells[i]).m, p, types, cells, i + 1)

AICamp == << <<0, 0>>, <<1, 0>>, <<2, 0>>, <<3, 0>>, <<4, 0>> >>
HumanCamp == << <<0, 3>>, <<1, 3>>, <<2, 3>>, <<0, 2>>, <<0, 1>> >>

AIArmies ==
  { << >>, <<"Scout">>, <<"Warrior", "Archer">>, <<"Scout", "Warrior">>,
    <<"Warrior", "Archer", "Healer">>, <<"Scout", "Warrior", "Archer">>,
    <<"Warrior", "Archer", "Healer", "Mage">>, <<"Scout", "Warrior", "Archer", "Healer">>,
    <<"Warrior", "Archer", "Healer", "Mage", "Cavalry">> }

AIGold == {35, 45, 55, 65, 72, 78, 90}

ArmyMatch(own, theirs, g) ==
  LET m0 == create_base(create_base(EmptyMatch, 0, p1_base_pos), 1, p2_base_pos)
      m1 == Muster(m0, 1, own, AICamp, 1)
      m2 == Muster(m1, 0, [i \in 1 .. theirs |-> "Warrior"], HumanCamp, 1)
  IN UpdateBoth([m2 EXCEPT !.gold[1] = g])

(* run has passed the turn to the AI, whose perform_ai_turn is about to     *)
(* start on the match m                                                    *)
AITurnStart(m) ==
  /\ units = m.units
  /\ tiles = m.tiles
  /\ visibility_map = m.vis
  /\ gold = m.gold
  /\ next_unit_id_counter = m.next_unit_id_counter
  /\ current_player_index = 1
  /\ turn_number = 1
  /\ selected_unit = NoUnit
  /\ winner = -1
  /\ ai = [AIIdle EXCEPT !.stage = "build"]
  /\ last = NoCmd
  /\ cmd_count = [i \in Indices(m.units) |-> NoCounts]
  /\ bashed = {}
  /\ issued = 0

InitAIBuild ==
  \E own \in AIArmies, theirs \in {0, 3, 5}, g \in AIGold :
     AITurnStart(ArmyMatch(own, theirs, g))

NextAIBuild == AIBuild

SpecAIBuild == InitAIBuild /\ [][NextAIBuild]_vars

(* ---- the Mage's ability phase in perform_ai_turn ---- *)
(* Matches in which the AI's loop has its Mage (unit 3) in hand and is     *)
(* about to run the ability phase: player 1 has a Warrior (unit 4) and a   *)
(* Scout (unit 5), both damaged or not.                                    *)
MageMatch(pos, a, ha, b, hb) ==
  LET m0 == create_base(create_base(EmptyMatch, 0, p1_base_pos), 1, p2_base_pos)
      m1 == add_unit(m0, 1, "Mage", pos).m
      m2 == add_unit(m1, 0, "Warrior", a).m
      m3 == add_unit(m2, 0, "Scout", b).m
  IN UpdateBoth([m3 EXCEPT !.units[4].hp = ha, !.units[5].hp = hb])

InitMage ==
  \E pos \in {<<3, 1>>, <<4, 1>>, <<3, 2>>, <<5, 1>>},
     a \in {<<2, 1>>, <<2, 2>>, <<3, 3>>}, ha \in {3, 9, 25},
     b \in {<<1, 2>>, <<2, 3>>, <<4, 3>>}, hb \in {2, 12} :
     /\ units = MageMatch(pos, a, ha, b, hb).units
     /\ tiles = MageMatch(pos, a, ha, b, hb).tiles
     /\ visibility_map = MageMatch(pos, a, ha, b, hb).vis
     /\ gold = MageMatch(pos, a, ha, b, hb).gold
     /\ next_unit_id_counter = MageMatch(pos, a, ha, b, hb).next_unit_id_counter
     /\ current_player_index = 1
     /\ turn_number = 1
     /\ selected_unit = NoUnit
     /\ winner = -1
     /\ ai = [AIIdle EXCEPT !.stage = "ability", !.unit = 3]
     /\ last = NoCmd
     /\ cmd_count = [i \in 1 .. 5 |-> NoCounts]
     /\ bashed = {}
     /\ issued = 0

NextMage == AIAbility

SpecMage == InitMage /\ [][NextMage]_vars

(* ---- one attack's chain of take_damage calls, call by call; the AI's phase ---- *)
(* Unit 1 of player 1 attacks unit 2 of player 2, `gap` cells away (both   *)
(* with `armour` more defense than their type's), as                       *)
(* handle_action does: unit 2's take_damage is called with unit 1's attack *)
(* and unit 1 as attacker.  `last` holds the call about to run (target t,  *)
(* damage, attacker a; t = NoUnit when none is), the stack of the units    *)
(* whose call waits for the counter-attack it made to return, and the      *)
(* number of calls begun.                                                  *)
MaxChain == 30

ChainUnits(ta, tb, hpa, hpb, gap, attacked, armour) ==
  << [NewUnit(0, 2, ta, <<2, 1>>) EXCEPT !.hp = hpa, !.defense = @ + armour],
     [NewUnit(1, 2, tb, <<2 + gap, 1>>) EXCEPT !.hp = hpb, !.has_attacked = attacked,
                                               !.defense = @ + armour] >>

ChainWatch(us) ==
  [op |-> "chain", t |-> 2, damage |-> us[1].attack, a |-> 1, stack |-> << >>,
   calls |-> 0, before |-> us]

InitChain ==
  \E ta \in {"Warrior", "Archer", "Scout"}, tb \in {"Warrior", "Archer"},
     hpa \in {1, 6, 12}, hpb \in {2, 12}, gap \in {1, 2}, attacked \in BOOLEAN,
     armour \in {0, 6} :
     CallingOn([EmptyMatch EXCEPT !.units = ChainUnits(ta, tb, hpa, hpb, gap, attacked, armour)],
               ChainWatch(ChainUnits(ta, tb, hpa, hpb, gap, attacked, armour)))

ChainFrame ==
  UNCHANGED <<tiles, visibility_map, gold, next_unit_id_counter, current_player_index,
              turn_number, selected_unit, winner, ai, cmd_count, bashed, issued>>

ChainReturns == [last EXCEPT !.t = NoUnit, !.calls = @ + 1]

(* One call of take_damage, up to its return or to the call it makes *)
TakeDamageCall ==
  /\ last.op = "chain" /\ last.t # NoUnit
  /\ Len(last.stack) < MaxChain
  /\ LET t == last.t
         a == last.a
         hp1 == units[t].hp - actual_damage(units[t], last.damage)
         dead == [units EXCEPT ![t].hp = 0, ![t].is_alive = FALSE]
         hurt == [units EXCEPT ![t].hp = hp1]
     IN IF ~units[t].is_alive
        THEN units' = units /\ last' = ChainReturns
        ELSE IF hp1 <= 0
        THEN /\ units' = IF dead[a].is_alive
                         THEN [dead EXCEPT ![a] = gain_xp(dead[a], UNIT_STATS[dead[t].type].xp_value)]
                         ELSE dead
             /\ last' = ChainReturns
        ELSE IF /\ hurt[a].is_alive
                /\ can_retaliate(hurt[t])
                /\ distance(hurt[t].position, hurt[a].position) <= attack_range(hurt[t])
        THEN /\ units' = hurt
             /\ last' = [last EXCEPT !.t = a, !.a = t, !.damage = hurt[t].attack,
                                     !.stack = Append(@, t), !.calls = @ + 1]
        ELSE units' = hurt /\ last' = ChainReturns
  /\ ChainFrame

(* The counter-attack has returned: "self.has_attacked = True", and return *)
TakeDamageReturn ==
  /\ last.op = "chain" /\ last.t = NoUnit
  /\ last.stack # << >>
  /\ units' = [units EXCEPT ![last.stack[Len(last.stack)]].has_attacked = TRUE]
  /\ last' = [last EXCEPT !.stack = SubSeq(@, 1, Len(@) - 1)]
  /\ ChainFrame

InitTerminates ==
  \/ InitChain
  \/ \E own \in {<<"Scout", "Warrior">>, <<"Warrior", "Archer", "Healer">>},
        theirs \in {1, 3} :
        AITurnStart(ArmyMatch(own, theirs, 90))

NextTerminates ==
  \/ TakeDamageCall
  \/ TakeDamageReturn
  \/ AIBuild
  \/ AIPick
  \/ AIAbility
  \/ AIAttack
  \/ AIMove
  \/ AIAfterMove
  \/ AIEndUnit
  \/ AIEndTurn

(* The calls are synchronous: a call or a return that is due is made.  The *)
(* AI's phase is measured step by step and needs no fairness.              *)
SpecTerminates ==
  InitTerminates /\ [][NextTerminates]_vars /\ WF_vars(TakeDamageCall \/ TakeDamageReturn)

(* ---- calls of Player.build_unit ---- *)
(* Scouts of player p put on the cells of the sequence cells *)
RECURSIVE Garrison(_, _, _)
Garrison(m, p, cells) ==
  IF cells = << >> THEN m
  ELSE Garrison(add_unit(m, p, "Scout", Head(cells)).m, p, Tail(cells))

Killed(u) == [u EXCEPT !.hp = 0, !.is_alive = FALSE]

(* A match in which player p has the given gold, Scouts on the cells occ   *)
(* around its base, the first of them dead on its tile when first_dead,    *)
(* and a base that is alive or destroyed.                                  *)
BuildMatch(p, g, base_alive, occ, first_dead) ==
  LET m1 == create_base(create_base(EmptyMatch, 0, p1_base_pos), 1, p2_base_pos)
      base_pos == IF p = 0 THEN p1_base_pos ELSE p2_base_pos
      m2 == Garrison(m1, p, SelectSeq([i \in 1 .. Len(Dirs8) |-> Step(base_pos, Dirs8[i])],
                                     LAMBDA c : c \in occ))
      m3 == IF first_dead /\ Len(m2.units) > 2
            THEN [m2 EXCEPT !.units[3] = Killed(@)] ELSE m2
      m4 == IF base_alive THEN m3 ELSE [m3 EXCEPT !.units[p + 1] = Killed(@)]
  IN UpdateBoth([m4 EXCEPT !.gold[p] = g])

BuildGold == {39, 40, 100}
BuildCallTypes == {"Scout", "Mage", "Base", "Dragon"}

BuildCall(p, type, m) ==
  [op |-> "build_unit", returned |-> FALSE, ok |-> FALSE, player |-> p, type |-> type,
   before |-> m]

(* The sets of scan steps whose cells are taken: the first k steps of the  *)
(* scan, or one step alone                                                 *)
TakenSteps ==
  { 1 .. k : k \in 0 .. Len(Dirs8) } \cup { {k} : k \in 1 .. Len(Dirs8) }

InitBuild ==
  \E p \in Players, g \in BuildGold, type \in BuildCallTypes, base_alive \in BOOLEAN,
     first_dead \in BOOLEAN, taken \in TakenSteps :
     CallingOn(BuildMatch(p, g, base_alive,
                          { Step(IF p = 0 THEN p1_base_pos ELSE p2_base_pos, Dirs8[i]) :
                              i \in taken }, first_dead),
               BuildCall(p, type,
                 BuildMatch(p, g, base_alive,
                            { Step(IF p = 0 THEN p1_base_pos ELSE p2_base_pos, Dirs8[i]) :
                                i \in taken }, first_dead)))

BuildUnit ==
  /\ last.op = "build_unit"
  /\ ~last.returned
  /\ Commit(build_unit(M, last.player, last.type).m)
  /\ last' = [last EXCEPT !.returned = TRUE,
                          !.ok = build_unit(M, last.player, last.type).ok]
  /\ UNCHANGED <<current_player_index, turn_number, selected_unit, winner, ai,
                 cmd_count, bashed, issued>>

NextBuild == BuildUnit

SpecBuild == InitBuild /\ [][NextBuild]_vars

(* ---- a poisoned unit over the following turns ---- *)
(* The match is a new game in which unit v has been hit by a Fireball that *)
(* poisoned it (apply_status("Poison", 3)), possibly left at low hp and    *)
(* possibly stunned as well; the players then end their turns one after    *)
(* the other.  `last` counts the upkeeps of v's faction since then and the *)
(* poison ticks v took in them.                                            *)
PoisonedGame(v, low, stunned) ==
  LET u0 == IF low THEN [NewGame.units[v] EXCEPT !.hp = 2] ELSE NewGame.units[v]
      u1 == apply_status(u0, "Poison", 3)
  IN [NewGame EXCEPT !.units[v] = IF stunned THEN apply_status(u1, "Stun", 1) ELSE u1]

PoisonWatch(v) == [op |-> "poison", unit |-> v, upkeeps |-> 0, ticks |-> 0]

InitPoison ==
  \E v \in Indices(NewGame.units), low \in BOOLEAN, stunned \in BOOLEAN, first \in Players :
     /\ units = PoisonedGame(v, low, stunned).units
     /\ tiles = NewGame.tiles
     /\ visibility_map = NewGame.vis
     /\ gold = NewGame.gold
     /\ next_unit_id_counter = NewGame.next_unit_id_counter
     /\ current_player_index = first
     /\ turn_number = 1
     /\ selected_unit = NoUnit
     /\ winner = -1
     /\ ai = AIIdle
     /\ last = PoisonWatch(v)
     /\ cmd_count = << >>
     /\ bashed = {}
     /\ issued = 0

(* The poison ticks of unit v in the hit log of an upkeep *)
Ticks(hits, v) == Cardinality({ k \in 1 .. Len(hits) : hits[k][1] = NoUnit /\ hits[k][2] = v })

TurnPassed(new, r) ==
  /\ Commit(r.m)
  /\ current_player_index' = new
  /\ turn_number' = IF new = 0 THEN turn_number + 1 ELSE turn_number
  /\ last' = [last EXCEPT
                !.upkeeps = IF units[last.unit].player = new THEN @ + 1 ELSE @,
                !.ticks = @ + Ticks(r.hits, last.unit)]
  /\ UNCHANGED <<selected_unit, winner, ai, cmd_count, bashed, issued>>

(* Game.next_turn at the end of a turn without commands *)
PassTurn ==
  /\ last.op = "poison"
  /\ turn_number <= MaxUpkeeps
  /\ TurnPassed((current_player_index + 1) % 2,
                start_turn_updates(M, (current_player_index + 1) % 2))

NextPoison == PassTurn

SpecPoison == InitPoison /\ [][NextPoison]_vars

(* =============================== claims ================================ *)
(* The hits of hits that attacker a dealt to target t *)
HitCount(hits, a, t) ==
  Cardinality({ k \in 1 .. Len(hits) : hits[k][1] = a /\ hits[k][2] = t })

BaseDead == \E p \in Players : ~units[base_unit(units, p)].is_alive

(* C1: within one acting phase every unit has at most one move, at most    *)
(* one attack command and at most one successful ability applied.          *)
C1_OncePerPhase ==
  \A i \in DOMAIN cmd_count :
     /\ cmd_count[i].moves <= 1
     /\ cmd_count[i].attacks <= 1
     /\ cmd_count[i].abilities <= 1

(* C2: an attack command of A on B that B survives strikes B exactly once, *)
(* B strikes back at most once, and A's attack flag is set afterwards.     *)
C2_OneExchange ==
  (last.op = "attack" /\ units[last.tunit].is_alive) =>
     /\ HitCount(last.hits, last.unit, last.tunit) = 1
     /\ HitCount(last.hits, last.tunit, last.unit) <= 1
     /\ units[last.unit].has_attacked

(* C3: once a Base is dead no step changes the match any more: no command, *)
(* build, upkeep or change of turn is applied, whatever killed the Base.   *)
C3_NothingAfterBaseDeath ==
  [][BaseDead => UNCHANGED <<match_vars, current_player_index, turn_number>>]_vars

(* C4: a unit a Bash has stunned has no move, attack or ability applied    *)
(* during its faction's next acting phase.                                 *)
C4_BashedUnitSitsOut ==
  ~(last.op \in {"move", "attack", "ability"} /\ last.ok /\ last.unit \in bashed)

(* C5: an ability that is rejected leaves the whole match as it was, the   *)
(* unit's flags and cooldown included.                                     *)
C5_RejectedAbilityChangesNothing ==
  (last.op = "ability" /\ ~last.ok) => ~last.changed


(* C6: every attack command applied, the human's or the AI's, has a target *)
(* that was alive, of the other faction, on a cell its faction saw (state  *)
(* 2) and within the attacker's effective range; every unit returned by    *)
(* get_possible_targets is such a target, and a stunned unit has none.     *)
C6_TargetsAreLegal ==
  /\ last.op = "attack" =>
       /\ last.talive
       /\ last.tenemy
       /\ units[last.tunit].position \in last.seen
       /\ last.tdist <= last.range
  /\ \A ui \in Indices(units) :
       /\ \A ti \in get_possible_targets(M, ui) :
            /\ units[ti].is_alive
            /\ units[ti].player # units[ui].player
            /\ visibility_map[units[ui].player][units[ti].position] = 2
            /\ distance(units[ui].position, units[ti].position)
                 <= effective_attack_range(units[ui])
       /\ HasStatus(units[ui], "Stun") => get_possible_targets(M, ui) = {}

(* An attack of the AI has been applied while a unit of the other side is  *)
(* stunned and a third unit has targets to choose from                     *)
C6_AttackApplied ==
  /\ last.op = "attack" /\ last.by = "ai"
  /\ \E ui \in Indices(units) : HasStatus(units[ui], "Stun")
  /\ \E ui \in Indices(units) : get_possible_targets(M, ui) # {}

(* C7: an ability is accepted only on a target its faction currently sees, *)
(* a Fireball on an unseen cell is rejected, and no ability damages an     *)
(* enemy on a cell its faction does not see.                               *)
C7_AbilitiesNeedSight ==
  (last.op = "ability" /\ last.ok) =>
     /\ last.tpos # << >> => last.tpos \in last.seen
     /\ last.tenemy => units[last.tunit].position \in last.seen
     /\ \A k \in 1 .. Len(last.hits) :
          (/\ last.hits[k][1] = last.unit
           /\ units[last.hits[k][2]].player # units[last.unit].player)
          => units[last.hits[k][2]].position \in last.seen

(* C8: no two live units, Bases included, stand on the same cell. *)
C8_OneUnitPerCell ==
  \A i, j \in Indices(units) :
     (i # j /\ units[i].is_alive /\ units[j].is_alive)
     => units[i].position # units[j].position

(* Both players have built a unit and a move has just been applied *)
C8_BuiltAndMoved ==
  /\ last.op = "move"
  /\ \A p \in Players : Len(get_alive_units(units, p)) > 3

(* C9: the hp of every unit stays within 0 .. max_hp, and a unit is dead   *)
(* exactly when its hp is 0.                                               *)
C9_HpInRange ==
  \A i \in Indices(units) :
     /\ 0 <= units[i].hp
     /\ units[i].hp <= max_hp(units[i])
     /\ ~units[i].is_alive <=> units[i].hp = 0

(* A Heal has brought a damaged unit to its full hp and no further *)
C9_HealedToFull ==
  /\ last.op = "ability" /\ last.ok
  /\ ability_name(units[last.unit]) = "Heal"
  /\ units[last.tunit].type = "Warrior"
  /\ units[last.tunit].hp = max_hp(units[last.tunit])

(* C10: no cell of the grid refers to a dead unit other than a Base,       *)
(* whatever killed the unit.                                               *)
C10_NoDeadUnitOnGrid ==
  \A c \in Cells :
     (tiles[c] # NoUnit /\ ~units[tiles[c]].is_alive) => units[tiles[c]].type = "Base"

(* C11: every call of take_damage on a live unit lowers its hp, at the     *)
(* call's own update of hp, by exactly min(hp, max(1, power - (defense +   *)
(* 2 under Evade + the terrain defense bonus of its cell))), which is      *)
(* never less than 1.                                                      *)
C11_DamageByFormula ==
  \A k \in 1 .. Len(last.hits) :
     LET f == last.hits[k][4]
         total == f.defense + (IF f.evade THEN 2 ELSE 0)
                            + TERRAIN_TYPES[map_layout(f.position)].defense_bonus
     IN /\ f.hp - f.after = Min(f.hp, Max(1, f.power - total))
        /\ f.hp - f.after >= 1

(* A call whose power does not exceed the defense of a unit on a cell with *)
(* a terrain bonus: the floor of 1 applies.                                *)
C11_FloorApplied ==
  \E k \in 1 .. Len(last.hits) :
     LET f == last.hits[k][4]
     IN /\ TERRAIN_TYPES[map_layout(f.position)].defense_bonus > 0
        /\ f.power <= f.defense + TERRAIN_TYPES[map_layout(f.position)].defense_bonus
        /\ f.hp - f.after = 1

(* C12: after every resolved command or upkeep the cells a faction marks   *)
(* as currently visible are exactly the cells its live units see now; no   *)
(* cell stays currently visible only because of a unit that is dead.       *)
C12_VisibilityIsCurrent ==
  \A p \in Players :
     { c \in Cells : visibility_map[p][c] = 2 } = SeenCells(units, p)

(* C13: for each faction and cell the visibility state never returns to    *)
(* unseen (0) once it is previously-seen (1) or currently-visible (2): a   *)
(* step only ever downgrades 2 to 1.                                       *)
C13_VisibilityMemoryKept ==
  [][\A p \in Players : \A c \in Cells :
        visibility_map[p][c] >= 1 => visibility_map'[p][c] >= 1]_vars

(* The recomputation after a move has left a cell the mover's faction saw  *)
(* before as previously-seen.                                              *)
C13_CellDowngraded ==
  /\ last.op = "move"
  /\ \E c \in last.seen : visibility_map[units[last.unit].player][c] = 1

(* C14: get_valid_moves returns a set that contains the unit's own cell    *)
(* and no cell occupied by another live unit; for a unit with the Stun     *)
(* status the set is exactly its own cell.                                 *)
C14_ValidMovesAreFree ==
  (last.op = "get_valid_moves" /\ last.returned) =>
     /\ last.unit.position \in last.moves
     /\ \A c \in last.moves \ {last.unit.position} : ~last.game_map.unit[c]
     /\ HasStatus(last.unit, "Stun") => last.moves = {last.unit.position}

(* A stunned unit with a free cell next to it has asked for its moves *)
C14_StunnedUnitAsked ==
  /\ last.op = "get_valid_moves" /\ last.returned
  /\ HasStatus(last.unit, "Stun")
  /\ \E i \in 1 .. Len(Dirs4) :
        /\ GridValid(last.game_map, Step(last.unit.position, Dirs4[i]))
        /\ ~last.game_map.unit[Step(last.unit.position, Dirs4[i])]
  /\ last.moves = {last.unit.position}

(* The cells within three steps of pos along 4-adjacent cells of game_map  *)
(* that hold no live unit                                                  *)
FreeNeighbours(game_map, S) ==
  { c \in GridCells(game_map) :
      ~game_map.unit[c] /\ \E d \in S : distance(c, d) = 1 }

WithinThreeSteps(game_map, pos) ==
  LET r1 == {pos} \cup FreeNeighbours(game_map, {pos})
      r2 == r1 \cup FreeNeighbours(game_map, r1)
  IN r2 \cup FreeNeighbours(game_map, r2)

(* The call the claim is about: a unit of move range 3 without Stun or     *)
(* Charge, on an all-Plains map, at least 3 cells from every edge.         *)
C15_Case ==
  /\ last.op = "get_valid_moves" /\ last.returned
  /\ UNIT_STATS[last.unit.type].move_range = 3
  /\ last.unit.status_effects = << >>
  /\ \A c \in GridCells(last.game_map) : last.game_map.terrain[c] = "P"
  /\ last.unit.position[1] >= 3 /\ last.unit.position[1] + 3 < last.game_map.width
  /\ last.unit.position[2] >= 3 /\ last.unit.position[2] + 3 < last.game_map.height

NoOthers ==
  \A c \in GridCells(last.game_map) : last.game_map.unit[c] => c = last.unit.position

(* C15 as stated: the result is every cell at Manhattan distance <= 3 that *)
(* holds no other live unit, wherever the other units stand, and 13 cells  *)
(* when no cell is occupied.                                               *)
C15_DiamondMinusOccupied ==
  C15_Case =>
     /\ last.moves = { c \in GridCells(last.game_map) :
                         /\ distance(c, last.unit.position) <= 3
                         /\ (c = last.unit.position \/ ~last.game_map.unit[c]) }
     /\ NoOthers => Cardinality(last.moves) = 13

(* C15 amended: the result is the unit's cell and every cell that a path   *)
(* of at most 3 steps through cells without a live unit reaches (a live    *)
(* unit also bars the way to the cells behind it), which is the 25 cells   *)
(* at Manhattan distance <= 3 when no cell is occupied.                    *)
C15_ReachableWithinThree ==
  C15_Case =>
     /\ last.moves = WithinThreeSteps(last.game_map, last.unit.position)
     /\ NoOthers => /\ Cardinality(last.moves) = 25
                    /\ last.moves = { c \in GridCells(last.game_map) :
                                        distance(c, last.unit.position) <= 3 }

(* The case with another unit in the way: a cell at distance <= 3 that     *)
(* holds no unit is not in the result.                                     *)
C15_WayBarred ==
  /\ C15_Case
  /\ \E c \in GridCells(last.game_map) :
        /\ distance(c, last.unit.position) <= 3
        /\ ~last.game_map.unit[c]
        /\ c \notin last.moves

(* The steps of the scan around the base of player p in match b that meet  *)
(* a cell on the grid that is Plains and holds no live unit                *)
SpawnSteps(b, p) ==
  { i \in 1 .. Len(Dirs8) :
      LET c == Step(b.units[base_unit(b.units, p)].position, Dirs8[i])
      IN /\ c \in Cells
         /\ map_layout(c) = "P"
         /\ (b.tiles[c] = NoUnit \/ ~b.units[b.tiles[c]].is_alive) }

FirstSpawn(b, p) ==
  Step(b.units[base_unit(b.units, p)].position,
       Dirs8[CHOOSE i \in SpawnSteps(b, p) : \A j \in SpawnSteps(b, p) : i <= j])

Buildable(type) == type \in UnitTypes /\ type # "Base"

MayBuild(b, p, type) ==
  /\ b.units[base_unit(b.units, p)].is_alive
  /\ Buildable(type)
  /\ b.gold[p] >= UNIT_STATS[type].cost
  /\ SpawnSteps(b, p) # {}

(* C19: build_unit succeeds exactly when the base is alive, the type is    *)
(* buildable, the gold covers the cost and a cell around the base is on    *)
(* the grid, Plains and free of live units.  On success the gold drops by  *)
(* the cost, one new live unit with an id new to the faction stands on the *)
(* first such cell in scan order and the visibility is recomputed; on a    *)
(* rejection the match is unchanged; gold is never negative.               *)
C19_BuildUnitContract ==
  (last.op = "build_unit" /\ last.returned) =>
     LET b == last.before
         p == last.player
         n == Len(units)
     IN /\ last.ok = MayBuild(b, p, last.type)
        /\ gold[p] >= 0
        /\ ~last.ok => M = b
        /\ last.ok =>
             /\ gold = [b.gold EXCEPT ![p] = @ - UNIT_STATS[last.type].cost]
             /\ n = Len(b.units) + 1
             /\ SubSeq(units, 1, n - 1) = b.units
             /\ units[n].is_alive /\ units[n].player = p /\ units[n].type = last.type
             /\ units[n].position = FirstSpawn(b, p)
             /\ tiles = [b.tiles EXCEPT ![FirstSpawn(b, p)] = n]
             /\ \A i \in 1 .. n - 1 : units[i].player = p => units[i].n # units[n].n
             /\ next_unit_id_counter[p] > units[n].n
             /\ { c \in Cells : visibility_map[p][c] = 2 } = SeenCells(units, p)

(* A build that succeeded on a cell later in the scan, the earlier cells   *)
(* being taken or not Plains                                               *)
C19_BuiltOnLaterCell ==
  /\ last.op = "build_unit" /\ last.returned /\ last.ok
  /\ units[Len(units)].position
       # Step(last.before.units[base_unit(last.before.units, last.player)].position, Dirs8[1])

(* C20: while the human faction is in its acting phase and the match is    *)
(* not over, a build command that meets the base, gold and placement       *)
(* preconditions is accepted, whether or not any of the faction's units    *)
(* can still act.                                                          *)
C20_BuildAlwaysAccepted ==
  \A type \in BuildTypes :
     (MayCommand /\ selected_unit = NoUnit /\ MayBuild(M, 0, type))
        => ENABLED (Build(type) /\ last'.ok)

(* C18: a Poison applied with duration 3 to a unit that stays alive and is *)
(* not poisoned again ticks at each of the next 3 upkeeps of the unit's    *)
(* faction, is removed at the third, and never ticks afterwards.           *)
C18_PoisonTicksThreeTimes ==
  (last.op = "poison" /\ units[last.unit].is_alive) =>
     /\ last.ticks = Min(last.upkeeps, 3)
     /\ HasStatus(units[last.unit], "Poison") <=> last.upkeeps < 3

(* The poisoned unit has lived through more than three upkeeps *)
C18_PoisonWornOff ==
  /\ last.op = "poison" /\ units[last.unit].is_alive
  /\ last.upkeeps > 3
  /\ last.ticks = 3

(* ---- C16, C17: a_star_pathfinding ---- *)
(* A cell a path may enter: on the grid, passable, without a live unit *)
MayEnter(game_map, costs, c) ==
  /\ GridValid(game_map, c)
  /\ costs[game_map.terrain[c]] # NoCost
  /\ ~game_map.unit[c]

(* The cells of a game_map in a row, and the place of a cell in that row *)
CellAt(game_map, k) == <<(k - 1) \div game_map.height, (k - 1) % game_map.height>>

CellIndex(game_map, c) == c[1] * game_map.height + c[2] + 1

(* The cheapest known cost of entering the k-th cell after one more round  *)
(* of relaxation; best lists the known costs cell by cell (NoCost: none)   *)
RelaxedAt(game_map, costs, best, k) ==
  LET via == { best[CellIndex(game_map, Step(CellAt(game_map, k), Dirs4[i]))]
                 + costs[game_map.terrain[CellAt(game_map, k)]] :
                 i \in { j \in 1 .. Len(Dirs4) :
                           /\ GridValid(game_map, Step(CellAt(game_map, k), Dirs4[j]))
                           /\ best[CellIndex(game_map, Step(CellAt(game_map, k), Dirs4[j]))]
                                # NoCost } }
             \cup ({best[k]} \ {NoCost})
  IN IF ~MayEnter(game_map, costs, CellAt(game_map, k)) \/ via = {} THEN best[k]
     ELSE CHOOSE v \in via : \A w \in via : v <= w

RECURSIVE Relaxed(_, _, _, _)
Relaxed(game_map, costs, best, done) ==
  IF Len(done) = Len(best) THEN done
  ELSE Relaxed(game_map, costs, best,
               Append(done, RelaxedAt(game_map, costs, best, Len(done) + 1)))

RECURSIVE CheapestAfter(_, _, _, _)
CheapestAfter(game_map, costs, best, rounds) ==
  IF rounds = 0 THEN best
  ELSE CheapestAfter(game_map, costs, Relaxed(game_map, costs, best, << >>), rounds - 1)

RECURSIVE StartOnly(_, _, _)
StartOnly(game_map, start_pos, done) ==
  IF Len(done) = game_map.width * game_map.height THEN done
  ELSE StartOnly(game_map, start_pos,
                 Append(done, IF CellAt(game_map, Len(done) + 1) = start_pos
                              THEN 0 ELSE NoCost))

(* The least summed cost of entered cells over all paths from start_pos to *)
(* end_pos; NoCost when no path arrives                                    *)
Cheapest(game_map, costs, start_pos, end_pos) ==
  CheapestAfter(game_map, costs, StartOnly(game_map, start_pos, << >>),
                game_map.width * game_map.height)[CellIndex(game_map, end_pos)]

RECURSIVE PathCost(_, _, _, _)
PathCost(game_map, costs, path, k) ==
  IF k > Len(path) THEN 0
  ELSE costs[game_map.terrain[path[k]]] + PathCost(game_map, costs, path, k + 1)

(* path runs from start_pos to end_pos over 4-adjacent cells it may enter *)
IsWalk(game_map, costs, path, start_pos, end_pos) ==
  /\ Len(path) >= 1
  /\ path[1] = start_pos
  /\ path[Len(path)] = end_pos
  /\ \A k \in 2 .. Len(path) :
       /\ distance(path[k - 1], path[k]) = 1
       /\ MayEnter(game_map, costs, path[k])

(* What C16 asks of a returned call, given the least cost to the goal *)
CheapestWalk(call, least) ==
  IF least = NoCost THEN call.path = NoPath
  ELSE /\ IsWalk(call.game_map, call.unit_move_costs, call.path, call.start_pos, call.end_pos)
       /\ PathCost(call.game_map, call.unit_move_costs, call.path, 2) = least

(* C16: a_star_pathfinding returns a 4-adjacent path from start to goal    *)
(* whose summed cost of entered cells is the minimum over the paths that   *)
(* avoid impassable cells and cells holding live units, and returns no     *)
(* path exactly when there is no such path.                                *)
C16_CheapestPathOrNone ==
  (last.op = "a_star_pathfinding" /\ last.returned) =>
    CheapestWalk(last, Cheapest(last.game_map, last.unit_move_costs,
                                last.start_pos, last.end_pos))

(* C17: a_star_pathfinding returns no path whenever the goal cell holds a  *)
(* live unit other than the one on the start cell.                         *)
C17_OccupiedGoalHasNoPath ==
  (/\ last.op = "a_star_pathfinding"
   /\ last.returned
   /\ last.end_pos # last.start_pos
   /\ last.game_map.unit[last.end_pos]) =>
    last.path = NoPath

(* C21: exactly one faction is active at any time; each change of the      *)
(* active faction hands over to the other one; the turn counter starts at  *)
(* 1 and grows by exactly 1 when the first faction becomes active again    *)
(* and at no other time; move, attack, ability and wait commands are       *)
(* applied only to units of the active faction.                            *)
C21_FactionsAlternate ==
  /\ turn_number = 1
  /\ [][/\ current_player_index \in Players
        /\ current_player_index' \in Players
        /\ turn_number' = turn_number
                          + (IF current_player_index = 1 /\ current_player_index' = 0
                             THEN 1 ELSE 0)
        /\ (last' # last /\ last'.op = "upkeep")
             => current_player_index' = Opponent(current_player_index)
        /\ (last' # last /\ last'.op \in {"move", "attack", "ability", "wait"})
             => /\ units[last'.unit].player = current_player_index
                /\ current_player_index' = current_player_index]_vars

(* The second turn has begun: both factions have had an acting phase and   *)
(* the first faction is active again                                       *)
C21_SecondTurnBegun ==
  /\ turn_number = 2
  /\ current_player_index = 0
  /\ last.op = "upkeep"

(* C22: every acting phase of a faction, the first acting phase of the     *)
(* match included, directly follows that faction's upkeep (income, status  *)
(* ticks, cooldown ticks, flag reset, visibility): a faction's command is  *)
(* applied only after an upkeep or after another command of the phase.     *)
C22_UpkeepBeforeActing ==
  [][(last' # last /\ last'.by \in {"human", "ai"})
       => last.by \in {"game", "human", "ai"}]_vars

(* The xp values of the targets that unit i killed in the hit log, summed *)
RECURSIVE KillXp(_, _, _, _)
KillXp(us, hits, i, k) ==
  IF k > Len(hits) THEN 0
  ELSE (IF hits[k][1] = i /\ hits[k][4].after = 0
        THEN UNIT_STATS[us[hits[k][2]].type].xp_value ELSE 0)
       + KillXp(us, hits, i, k + 1)

(* C24: when a call of take_damage ends in a death dealt by a live unit    *)
(* below the maximum level (the attacker, or the target striking back),    *)
(* that unit's experience has grown by exactly the dead unit's xp value    *)
(* before level-ups; a death without attacker (poison) gives experience to *)
(* no unit; a unit at the maximum level gains none.                        *)
C24_ExperienceForKills ==
  (last.op = "take_damage" /\ last.returned) =>
    \A i \in Indices(units) :
       /\ last.before[i].level >= MAX_LEVEL =>
            /\ units[i].xp = last.before[i].xp
            /\ units[i].level = last.before[i].level
       /\ units[i].level < MAX_LEVEL =>
            units[i].xp = last.before[i].xp + KillXp(units, last.hits, i, 1)
       /\ (last.before[i].level < MAX_LEVEL /\ units[i].level >= MAX_LEVEL) =>
            last.before[i].xp + KillXp(units, last.hits, i, 1) >= XP_LEVELS[MAX_LEVEL].xp
       /\ KillXp(units, last.hits, i, 1) = 0 =>
            /\ units[i].xp = last.before[i].xp
            /\ units[i].level = last.before[i].level

(* The target has struck back, killed its attacker and risen a level *)
C24_CounterKillLevelsUp ==
  /\ last.op = "take_damage" /\ last.returned
  /\ ~units[1].is_alive
  /\ KillXp(units, last.hits, 2, 1) > 0
  /\ units[2].level > last.before[2].level

(* C23: during the AI's acting phase, once either Base is dead the AI      *)
(* applies no further command: no move, attack, ability, wait or build.    *)
C23_AIStopsAtBaseDeath ==
  [][BaseDead => ~(last' # last /\ last'.by = "ai")]_vars

(* C27: check_win_condition returns no winner exactly when both Bases are  *)
(* alive; otherwise it returns the opponent of a faction whose Base is     *)
(* dead, and the other faction when exactly one Base is dead.  Stated for  *)
(* the units of every state with the Bases alive or dead in every way.     *)
C27_WinnerByBases ==
  \A alive \in [Players -> BOOLEAN] :
     LET us == [i \in Indices(units) |->
                  IF units[i].type = "Base"
                  THEN [units[i] EXCEPT !.is_alive = alive[units[i].player]]
                  ELSE units[i]]
     IN /\ check_win_condition(us) = -1 <=> \A p \in Players : alive[p]
        /\ check_win_condition(us) # -1 =>
             /\ check_win_condition(us) \in Players
             /\ ~alive[Opponent(check_win_condition(us))]
        /\ \A p \in Players :
             (~alive[p] /\ alive[Opponent(p)]) => check_win_condition(us) = Opponent(p)

(* A Base has been destroyed and run has taken the winner from             *)
(* check_win_condition                                                     *)
C27_WinnerDeclared ==
  /\ winner = 0
  /\ ~units[base_unit(units, 1)].is_alive
  /\ units[base_unit(units, 0)].is_alive

(* C28: no move, attack, ability or wait command is applied to a unit that *)
(* is not alive, by the human loop or by the AI loop; a dead unit's        *)
(* position and action flags never change again, and it deals no damage.   *)
C28_DeadUnitsStayOut ==
  [][/\ (last' # last /\ last'.op \in {"move", "attack", "ability", "wait"})
          => /\ units[last'.unit].is_alive
             /\ \A k \in 1 .. Len(last'.hits) :
                  last'.hits[k][1] # NoUnit => units[last'.hits[k][1]].is_alive
     /\ \A i \in Indices(units) :
          ~units[i].is_alive =>
             /\ units'[i].position = units[i].position
             /\ units'[i].has_moved = units[i].has_moved
             /\ units'[i].has_attacked = units[i].has_attacked
             /\ units'[i].has_used_ability = units[i].has_used_ability]_vars

(* C25: after every successful ability use the unit's cooldown counter is  *)
(* its type's cooldown length and its used-ability flag is set; after a    *)
(* successful Bash, Fireball or Heal its attack flag is set; after a       *)
(* successful Long Shot, Charge or Evade its attack flag and its move flag *)
(* have exactly the values they had before the activation.                 *)
C25_AbilityFlags ==
  (last.op = "use_ability" /\ last.returned /\ last.ok) =>
    LET u == units[last.unit]
    IN /\ u.ability_cooldown_timer = UNIT_STATS[u.type].ability_cooldown
       /\ u.has_used_ability
       /\ ability_name(u) \in {"Bash", "Fireball", "Heal"} => u.has_attacked
       /\ ability_name(u) \in {"Long Shot", "Charge", "Evade"} =>
            /\ u.has_attacked = last.before.has_attacked
            /\ u.has_moved = last.before.has_moved

(* C26: after one Long Shot activation at most one attack of the Archer    *)
(* reaches beyond its normal attack range, and none does once the Archer   *)
(* has attacked or its turn has ended.                                     *)
C26_OneLongShot ==
  last.op = "long_shot" => last.shots <= 1 /\ ~last.late

(* ---- C29: update_visibility ---- *)
(* The cells of the grid in a row, and the place of a cell in that row *)
SightCell(k) == <<(k - 1) \div MAP_HEIGHT, (k - 1) % MAP_HEIGHT>>

SightIndex(c) == c[1] * MAP_HEIGHT + c[2] + 1

(* The least known vision cost of the k-th cell after one more round of    *)
(* relaxation over the 8 directions; best lists the known costs cell by    *)
(* cell (NoCost: none)                                                     *)
SightRelaxedAt(best, k) ==
  LET via == { best[SightIndex(Step(SightCell(k), Dirs8[i]))]
                 + Tile(SightCell(k)).vision_cost :
                 i \in { j \in 1 .. Len(Dirs8) :
                           /\ is_valid_coordinate(Step(SightCell(k), Dirs8[j]))
                           /\ best[SightIndex(Step(SightCell(k), Dirs8[j]))] # NoCost } }
             \cup ({best[k]} \ {NoCost})
  IN IF via = {} THEN best[k] ELSE CHOOSE v \in via : \A w \in via : v <= w

RECURSIVE SightRelaxed(_, _)
SightRelaxed(best, done) ==
  IF Len(done) = Len(best) THEN done
  ELSE SightRelaxed(best, Append(done, SightRelaxedAt(best, Len(done) + 1)))

RECURSIVE SightAfter(_, _)
SightAfter(best, rounds) ==
  IF rounds = 0 THEN best ELSE SightAfter(SightRelaxed(best, << >>), rounds - 1)

RECURSIVE SightStart(_, _)
SightStart(pos, done) ==
  IF Len(done) = MAP_WIDTH * MAP_HEIGHT THEN done
  ELSE SightStart(pos, Append(done, IF SightCell(Len(done) + 1) = pos THEN 0 ELSE NoCost))

(* The least summed vision cost of the entered cells over all              *)
(* 8-directional paths from pos, cell by cell                              *)
SightCosts(pos) == SightAfter(SightStart(pos, << >>), MAP_WIDTH * MAP_HEIGHT)

(* The cells within the vision range of a unit, given the costs from its cell *)
InSight(u, costs) ==
  { c \in Cells : c = u.position \/ costs[SightIndex(c)] <= UNIT_STATS[u.type].vision_range }

(* C29: right after update_visibility for a player a cell is currently     *)
(* visible exactly when it is the cell of a live unit of the player or an  *)
(* 8-directional path from that cell reaches it at a summed vision cost    *)
(* within the unit's vision range; every other cell is unseen if it was    *)
(* unseen and previously seen otherwise.                                   *)
C29_VisibleWithinRange ==
  (last.op = "update_visibility" /\ last.returned) =>
    \A c \in Cells :
       IF c \in InSight(units[1], SightCosts(units[1].position))
       THEN visibility_map[last.player][c] = 2
       ELSE visibility_map[last.player][c] = IF EarlierMap(last.shift)[c] = 0 THEN 0 ELSE 1

(* ---- C30: get_valid_moves and Charge ---- *)
(* move_cost per terrain letter *)
MoveCosts == [k \in DOMAIN TERRAIN_TYPES |-> TERRAIN_TYPES[k].move_cost]

(* The cells a unit at start_pos reaches within budget, given the least    *)
(* path costs best (cell by cell) over free cells                          *)
WithinBudget(game_map, start_pos, best, budget) ==
  { c \in GridCells(game_map) :
      \/ c = start_pos
      \/ /\ best[CellIndex(game_map, c)] # NoCost
         /\ best[CellIndex(game_map, c)] <= budget }

(* The least path costs from the cell of unit ui on the map of the match *)
LeastCosts(ui) ==
  CheapestAfter(GameMapOf(M), MoveCosts,
                StartOnly(GameMapOf(M), units[ui].position, << >>),
                MAP_WIDTH * MAP_HEIGHT)

(* C30: the moves of the (never stunned) Cavalry are its own cell and the  *)
(* cells some 4-directional path over free cells reaches at a summed move  *)
(* cost within its move range, 2 more from the activation of Charge until  *)
(* its player's next upkeep and not afterwards.                            *)
C30_MovesWithCharge ==
  (last.op = "charge" /\ ~HasStatus(units[4], "Stun")) =>
     get_valid_moves(M, 4)
       = WithinBudget(GameMapOf(M), units[4].position, LeastCosts(4),
                      UNIT_STATS[units[4].type].move_range
                        + (IF last.active /\ ~last.spent THEN 2 ELSE 0))

(* The Cavalry has charged and moved further than its move range *)
C30_ChargedFar ==
  last.op = "charge" /\ last.active /\ ~last.spent /\ last.far

(* ---- C31: the poison tick ---- *)
(* The status effects of u that follow Poison in its list *)
AfterPoison(u) ==
  SelectSeq([i \in 1 .. Len(u.status_effects) |->
               IF \E j \in 1 .. i - 1 : u.status_effects[j][1] = "Poison"
               THEN u.status_effects[i] ELSE << >>],
            LAMBDA s : s # << >>)

(* C31: an upkeep in which the watched unit takes its poison tick lowers   *)
(* its hp by exactly POISON_DAMAGE, or to 0 if it has less, whatever its   *)
(* defense, Evade status and terrain; if the tick kills the unit, the      *)
(* effects that follow Poison in its list are left as they were.           *)
C31_PoisonTickDamage ==
  [][(last.op = "poison" /\ last'.ticks = last.ticks + 1) =>
       /\ units'[last.unit].hp = Max(0, units[last.unit].hp - POISON_DAMAGE)
       /\ ~units'[last.unit].is_alive =>
            AfterPoison(units'[last.unit]) = AfterPoison(units[last.unit])]_vars

(* ---- C32: levelling ---- *)
(* The highest level whose threshold is at most xp *)
LevelFor(xp) ==
  CHOOSE l \in 1 .. MAX_LEVEL :
     /\ XP_LEVELS[l].xp <= xp
     /\ \A k \in 1 .. MAX_LEVEL : XP_LEVELS[k].xp <= xp => k <= l

(* The bonuses of the levels 2 .. level added up, one stat at a time *)
RECURSIVE BonusSum(_, _)
BonusSum(level, stat) ==
  IF level <= 1 THEN 0 ELSE XP_LEVELS[level][stat] + BonusSum(level - 1, stat)

(* C32: a grant of amount to a unit below the maximum level with           *)
(* experience xp leaves it at the highest level whose threshold is at most *)
(* xp + amount: one level up when the sum is exactly the next threshold,   *)
(* never down, always within 1 .. MAX_LEVEL; if it rose, its hp is the new *)
(* max hp and its attack and defense are the base values plus the bonuses  *)
(* of all levels reached.                                                  *)
C32_LevelByThreshold ==
  (last.op = "gain_xp" /\ last.returned /\ last.before.level < MAX_LEVEL) =>
    /\ units[1].level = LevelFor(last.before.xp + last.amount)
    /\ units[1].level >= last.before.level
    /\ units[1].level \in 1 .. MAX_LEVEL
    /\ last.before.xp + last.amount = XP_LEVELS[last.before.level + 1].xp
         => units[1].level = last.before.level + 1
    /\ units[1].level > last.before.level =>
         /\ units[1].hp = UNIT_STATS[units[1].type].hp + BonusSum(units[1].level, "hp")
         /\ units[1].attack
              = UNIT_STATS[units[1].type].attack + BonusSum(units[1].level, "attack")
         /\ units[1].defense
              = UNIT_STATS[units[1].type].defense + BonusSum(units[1].level, "defense")

(* A wounded unit has risen two levels or more in one grant *)
C32_SeveralLevelsAtOnce ==
  /\ last.op = "gain_xp" /\ last.returned
  /\ last.before.hp = 1
  /\ units[1].level >= last.before.level + 2
  /\ units[1].hp > 1

(* C33: the cooldown counter of the watched unit stays within 0 .. its     *)
(* type's cooldown length; an upkeep of its player takes exactly 1 off a   *)
(* positive counter of the live unit, stunned or not, and the other        *)
(* player's upkeep leaves it alone; an ability command issued while the    *)
(* counter is positive or the unit is stunned fails and changes nothing; a *)
(* successful one sets the counter to the cooldown length and comes at     *)
(* least that many upkeeps of the player after the one before; a failed    *)
(* one leaves the counter as it was.                                       *)
C33_CooldownCounter ==
  [][last.op = "cooldown" =>
       /\ units'[4].ability_cooldown_timer
            \in 0 .. UNIT_STATS[units[4].type].ability_cooldown
       /\ IF current_player_index' # current_player_index
          THEN units'[4].ability_cooldown_timer
                 = IF /\ current_player_index' = units[4].player
                      /\ units'[4].is_alive
                      /\ units[4].ability_cooldown_timer > 0
                   THEN units[4].ability_cooldown_timer - 1
                   ELSE units[4].ability_cooldown_timer
          ELSE /\ (units[4].ability_cooldown_timer > 0 \/ HasStatus(units[4], "Stun"))
                    => (~last'.ok /\ UNCHANGED match_vars)
               /\ last'.ok =>
                    /\ units'[4].ability_cooldown_timer
                         = UNIT_STATS[units[4].type].ability_cooldown
                    /\ last.since = -1
                         \/ last.since >= UNIT_STATS[units[4].type].ability_cooldown
               /\ ~last'.ok =>
                    units'[4].ability_cooldown_timer = units[4].ability_cooldown_timer
    ]_vars

(* The unit has used its ability a second time *)
C33_UsedAgain ==
  last.op = "cooldown" /\ last.uses >= 2 /\ last.since = 0

(* ---- C34, C39: Fireball ---- *)
(* The match use_ability was called on *)
AbilityBefore ==
  AbilityMatch(last.before.type, last.before.position, last.before.hp,
               last.before.has_moved, last.before.has_attacked,
               last.before.ability_cooldown_timer)

(* A Fireball of the calling unit has gone off *)
FireballCast ==
  /\ last.op = "use_ability" /\ last.returned /\ last.ok
  /\ ability_name(last.before) = "Fireball"

(* The entries of the hit log that are blast hits on unit i *)
BlastHits(i) ==
  { k \in 1 .. Len(last.hits) : last.hits[k][1] = last.unit /\ last.hits[k][2] = i }

(* C34: a successful Fireball is aimed at a cell within the caster's       *)
(* attack range; every unit that was alive at the cast within Manhattan    *)
(* distance 1 of the cell, of either player, takes exactly one blast hit   *)
(* and no other unit takes one; each blast hit is the damage formula       *)
(* applied to the power attack + 2; Poison comes only to a unit that       *)
(* survived its blast hit, with duration 3.                                *)
C34_FireballBlast ==
  FireballCast =>
    /\ distance(last.before.position, AbilityTargets[last.target].pos)
         <= attack_range(last.before)
    /\ \A i \in Indices(units) :
         /\ Cardinality(BlastHits(i))
              = IF /\ AbilityBefore.units[i].is_alive
                   /\ distance(AbilityBefore.units[i].position,
                               AbilityTargets[last.target].pos) <= 1
                THEN 1 ELSE 0
         /\ \A k \in BlastHits(i) :
              /\ last.hits[k][4].power = last.before.attack + 2
              /\ last.hits[k][3]
                   = Max(1, last.hits[k][4].power
                              - (last.hits[k][4].defense
                                 + (IF last.hits[k][4].evade THEN 2 ELSE 0)
                                 + Tile(last.hits[k][4].position).defense_bonus))
         /\ HasStatus(units[i], "Poison") =>
              /\ \E k \in BlastHits(i) : last.hits[k][4].after > 0
              /\ \E e \in 1 .. Len(units[i].status_effects) :
                   units[i].status_effects[e] = <<"Poison", 3>>

(* Unit i went down in the call before any blast hit reached it *)
StruckDown(i) ==
  \E k \in 1 .. Len(last.hits) :
     /\ last.hits[k][2] = i
     /\ last.hits[k][4].after = 0
     /\ \A j \in BlastHits(i) : j > k

(* C34, amended: as C34, but a unit that a counter-attack has killed       *)
(* before the blast reaches it (the caster, struck by a unit hit earlier)  *)
(* takes no blast hit.                                                     *)
C34_FireballBlastOnLive ==
  FireballCast =>
    /\ distance(last.before.position, AbilityTargets[last.target].pos)
         <= attack_range(last.before)
    /\ \A i \in Indices(units) :
         /\ Cardinality(BlastHits(i))
              = IF /\ AbilityBefore.units[i].is_alive
                   /\ distance(AbilityBefore.units[i].position,
                               AbilityTargets[last.target].pos) <= 1
                   /\ ~StruckDown(i)
                THEN 1 ELSE 0
         /\ \A k \in BlastHits(i) :
              /\ last.hits[k][4].power = last.before.attack + 2
              /\ last.hits[k][3]
                   = Max(1, last.hits[k][4].power
                              - (last.hits[k][4].defense
                                 + (IF last.hits[k][4].evade THEN 2 ELSE 0)
                                 + Tile(last.hits[k][4].position).defense_bonus))
         /\ HasStatus(units[i], "Poison") =>
              /\ \E k \in BlastHits(i) : last.hits[k][4].after > 0
              /\ \E e \in 1 .. Len(units[i].status_effects) :
                   units[i].status_effects[e] = <<"Poison", 3>>

(* A Fireball has hit and poisoned an enemy that struck back and killed    *)
(* the caster, and has gone on to hit the enemy Base                       *)
C34_CasterStruckDown ==
  /\ FireballCast
  /\ StruckDown(last.unit)
  /\ \E i \in Indices(units) : BlastHits(i) # {} /\ HasStatus(units[i], "Poison")
  /\ BlastHits(2) # {}

(* C39: in a Fireball no unit strikes back at a unit of its own player:    *)
(* every hit that is not a blast hit lands on a unit of the other player,  *)
(* and a unit of the caster's player that the blast hit has its attack     *)
(* flag as before (the caster's own is set by the ability).                *)
C39_NoCounterOnOwnSide ==
  FireballCast =>
    /\ \A k \in 1 .. Len(last.hits) :
         last.hits[k][1] # last.unit =>
           units[last.hits[k][1]].player # units[last.hits[k][2]].player
    /\ \A i \in Indices(units) \ {last.unit} :
         (units[i].player = last.before.player /\ BlastHits(i) # {}) =>
           units[i].has_attacked = AbilityBefore.units[i].has_attacked

(* ---- C35: the AI's build step ---- *)
NonBase(us, p) == { i \in Indices(us) : us[i].player = p /\ us[i].is_alive /\ us[i].type # "Base" }
OwnsScout == \E i \in NonBase(units, 1) : units[i].type = "Scout"
Payable == SelectSeq(<<"Warrior", "Archer", "Healer", "Mage", "Cavalry">>,
                     LAMBDA t : gold[1] >= UNIT_STATS[t].cost)
CheapestCost == UNIT_STATS["Scout"].cost

(* C35: in the AI's build step at most one unit is built; a build is       *)
(* attempted whenever the AI can pay the cheapest unit and has fewer       *)
(* non-base units than the opponent, or fewer than 4, or no Scout; the     *)
(* unit built is a Scout when the AI has no Scout and fewer than 3         *)
(* non-base units, and otherwise the first type of Warrior, Archer,        *)
(* Healer, Mage, Cavalry that it can pay.                                  *)
C35_AIBuildRule ==
  [][AIPhase("build") =>
       /\ Len(units') <= Len(units) + 1
       /\ ( /\ gold[1] >= CheapestCost
            /\ \/ Cardinality(NonBase(units, 1)) < Cardinality(NonBase(units, 0))
               \/ Cardinality(NonBase(units, 1)) < 4
               \/ ~OwnsScout )
          => (last'.by = "ai" /\ last'.op = "build")
       /\ Len(units') > Len(units) =>
            units'[Len(units')].type =
              IF ~OwnsScout /\ Cardinality(NonBase(units, 1)) < 3 THEN "Scout"
              ELSE Head(Payable)]_vars

(* ---- C36: the AI's commands ---- *)
AICommanded ==
  /\ last' # last
  /\ last'.by = "ai"
  /\ last'.op \in {"move", "attack", "ability", "wait"}
  /\ last'.ok

(* C36: every command the AI applies obeys the rules of the human's        *)
(* commands: a move goes to a cell of the unit's reachable set and the     *)
(* unit has not moved yet; an attack is made by a unit that has not        *)
(* attacked yet, on a live enemy on a cell the AI sees, within range; an   *)
(* ability is used off cooldown by a unit that has not used it yet; the    *)
(* unit commanded is neither stunned nor a Base, and it is alive, as a     *)
(* unit the human player selects has to be.                                *)
C36_AICommandsLegal ==
  [][AICommanded =>
       /\ units[last'.unit].is_alive
       /\ units[last'.unit].type # "Base"
       /\ ~HasStatus(units[last'.unit], "Stun")
       /\ last'.op = "move" =>
            /\ ~units[last'.unit].has_moved
            /\ last'.tpos \in get_valid_moves(M, last'.unit)
       /\ last'.op = "attack" =>
            /\ ~units[last'.unit].has_attacked
            /\ units[last'.tunit].is_alive
            /\ units[last'.tunit].player # units[last'.unit].player
            /\ visibility_map[units[last'.unit].player][units[last'.tunit].position] = 2
            /\ distance(units[last'.unit].position, units[last'.tunit].position)
                 <= effective_attack_range(units[last'.unit])
       /\ last'.op = "ability" =>
            /\ units[last'.unit].ability_cooldown_timer = 0
            /\ ~units[last'.unit].has_used_ability]_vars

(* ---- C37: the AI Mage's Fireball cell ---- *)
(* The cells in the Mage's range, the enemies the AI sees within the blast *)
(* of a cell, and the sum of 10 - hp over them                             *)
InMageRange(ui) ==
  { c \in Cells : distance(units[ui].position, c) <= attack_range(units[ui]) }

SeenInBlast(ui, c) ==
  SelectSeq(visible_enemies(M, units[ui].player),
            LAMBDA e : distance(c, units[e].position) <= 1)

RECURSIVE LowHpBonus(_)
LowHpBonus(es) ==
  IF es = << >> THEN 0 ELSE (10 - units[Head(es)].hp) + LowHpBonus(Tail(es))

AIFireball ==
  /\ last' # last
  /\ last'.by = "ai" /\ last'.op = "ability"
  /\ units[last'.unit].type = "Mage"

C38_GridAgreesWithUnits ==
  /\ \A i \in Indices(units) :
       units[i].is_alive => tiles[units[i].position] = i
  /\ \A c \in Cells :
       (tiles[c] # NoUnit /\ units[tiles[c]].is_alive) => units[tiles[c]].position = c

(* A unit has been killed and taken off the grid, a unit has been built    *)
(* and a dead unit has just been moved onto a cell of the grid             *)
C38_AfterKillBuildAndMove ==
  /\ \E i \in Indices(units) : ~units[i].is_alive /\ tiles[units[i].position] # i
  /\ Len(units) > Len(NewGame.units)
  /\ last.op = "move"
  /\ ~units[last.unit].is_alive /\ tiles[units[last.unit].position] = last.unit

(* ---- C40: termination ---- *)
ChainOver == last.t = NoUnit /\ last.stack = << >>
AIPhaseOver == current_player_index = 0 \/ winner # -1

(* What is left of the AI's phase: the units still to be taken from the    *)
(* shuffled list, and the steps left of the loop body for the unit in hand *)
StageRank ==
  CASE ai.stage = "ability" -> 6 [] ai.stage = "attack" -> 5 [] ai.stage = "move" -> 4
    [] ai.stage = "after_move" -> 3 [] ai.stage = "end" -> 2 [] ai.stage = "pick" -> 1
    [] OTHER -> 0

AIPhaseLeft ==
  IF AIPhaseOver THEN 0
  ELSE IF ai.stage = "build" THEN 10 * (Len(units) + 2)
  ELSE IF ai.stage = "done" THEN 1
  ELSE 10 * Cardinality(ai.queue) + StageRank + 1

(* C40: the chain of take_damage calls an attack starts comes to its end,  *)
(* whatever the two units' types, hp, armour and distance; every step of   *)
(* the AI's acting phase brings it nearer its end, and it takes each unit  *)
(* of its list at most once.                                               *)
C40_CommandsTerminate ==
  /\ <>(last.op = "chain" => ChainOver)
  /\ [][(last.op # "chain" /\ ~AIPhaseOver) =>
          /\ AIPhaseLeft' < AIPhaseLeft
          /\ ai.stage # "build" => ai'.queue \subseteq ai.queue]_vars

(* An exchange of six calls or more has come to its end *)
C40_LongExchangeOver ==
  /\ last.op = "chain" /\ ChainOver
  /\ last.calls >= 6

(* The chain, once over, has left the units as take_damage does *)
ChainAsTakeDamage ==
  (last.op = "chain" /\ ChainOver) =>
     units = take_damage(last.before, 2, last.before[1].attack, 1).us

====
